---- MODULE Spec2Model ----
(***************************************************************************)
(* SQL Cliq: the statement handlers of the SQL engine (utils of the        *)
(* sql-cli component) and the command loop of SqlCliComponent              *)
(* (processCommand / handleSubmit) that drives them.                       *)
(*                                                                         *)
(* Five specifications share the handler operators:                        *)
(*   Spec        the session: one SqlCliComponent processing input lines,  *)
(*               statement by statement, with the React state and the      *)
(*               values processCommand closed over when it was created;    *)
(*   SpecEngine  the handlers as pure functions, applied to every          *)
(*               statement and every current-database argument over the    *)
(*               stores the handlers themselves produce;                   *)
(*   SpecTable   the row handlers (INSERT, SELECT, UPDATE, DELETE, ALTER,  *)
(*               RENAME, DESCRIBE) as pure functions, applied to the       *)
(*               tables of one database as the handlers fill them;         *)
(*   SpecHost    two browsers on one server: each SqlCliComponent with its *)
(*               own React state, processCommand suspended at its awaits,  *)
(*               and the one file the server actions read and write;       *)
(*   SpecHostLive  SpecHost where every awaited call returns or fails.      *)
(***************************************************************************)
EXTENDS Integers, Sequences, FiniteSets, TLC

VARIABLES
  databases,                 \* React state `databases`
  currentDatabase,           \* React state `currentDatabase`
  awaitingPasswordForDb,     \* React state `awaitingPasswordForDb`
  awaitingPasswordForDropDb, \* React state `awaitingPasswordForDropDb`
  fileStore,                 \* content of sql-cliq-databases.json on the server
  pc,                        \* "idle" | "run" (inside the statement loop) | "done" (processCommand returned or threw)
  rest,                      \* the statements of the input line not executed (yet), in order
  tempDatabases,             \* local `tempDatabases` of processCommand
  clDatabases,               \* `databases` as closed over by this processCommand
  clCurrentDatabase,         \* `currentDatabase` as closed over by this processCommand
  dbToAuth,                  \* local `dbToAuth` of the USE password branch
  dbToDrop,                  \* local `dbToDrop` of the DROP password branch
  threw,                     \* processCommand ended by an uncaught TypeError
  eIn, eStmt, eCur, eRes,    \* SpecEngine, SpecTable: handler input store, statement, current-db argument, result
  sessions                   \* SpecHost: the SqlCliComponent of every browser open on the server

sessionVars == <<databases, currentDatabase, awaitingPasswordForDb, awaitingPasswordForDropDb,
                 fileStore, pc, rest, tempDatabases, clDatabases, clCurrentDatabase,
                 dbToAuth, dbToDrop, threw>>
engineVars == <<eIn, eStmt, eCur, eRes>>
hostVars == <<sessions>>
vars == <<sessionVars, engineVars, hostVars>>

-----------------------------------------------------------------------------
(* Bounds of the model *)

\* statements on one input line
MaxLine == 2
\* rows a table is filled up to
MaxRows == 2

-----------------------------------------------------------------------------
(* JavaScript values *)

\* null / undefined of a string-valued slot
Null == "<null>"
\* an absent optional string property (passwordHash, the password capture group)
Undefined == "<undefined>"

\* truthiness of a string-or-undefined value: undefined, null and "" are falsy
Truthy(x) == x \notin {Undefined, Null, ""}

StartsWith(s, p) == Len(s) >= Len(p) /\ SubSeq(s, 1, Len(p)) = p

\* const x = v; followed by the code F that uses x
Let(v, F(_)) == F(v)

\* A plain object with string keys: its own properties in insertion order,
\* as a sequence of [k, v] entries with pairwise distinct keys.
EmptyObj == <<>>
Keys(o) == [i \in 1..Len(o) |-> o[i].k]
OwnHas(o, k) == \E i \in 1..Len(o) : o[i].k = k
Get(o, k) == o[CHOOSE i \in 1..Len(o) : o[i].k = k].v
\* { ...o, [k]: v } and o[k] = v: an existing key keeps its place, a new one goes last
Put(o, k, v) ==
  IF OwnHas(o, k)
    THEN [i \in 1..Len(o) |-> IF o[i].k = k THEN [k |-> k, v |-> v] ELSE o[i]]
    ELSE Append(o, [k |-> k, v |-> v])
\* delete o[k]
Del(o, k) == SelectSeq(o, LAMBDA e : e.k # k)

\* Property names every plain object inherits from Object.prototype: o[k] is
\* truthy for them although k is no own property of o.
ObjectPrototypeNames == {"constructor", "toString", "valueOf", "hasOwnProperty"}
\* databases[k]: "own" (a DatabaseSchema), "inherited" (a member of
\* Object.prototype, truthy, with no passwordHash and no tables) or "none" (undefined)
Lookup(o, k) ==
  IF OwnHas(o, k) THEN "own"
  ELSE IF k \in ObjectPrototypeNames THEN "inherited"
  ELSE "none"

\* a handler output: a string, or an array of lines
Str(s) == [str |-> TRUE, lines |-> <<s>>]
Arr(ls) == [str |-> FALSE, lines |-> ls]
NoOutput == Arr(<<>>)
\* typeof output === 'string' && output.startsWith('Error:')
IsErrorOutput(out) == out.str /\ StartsWith(out.lines[1], "Error:")

-----------------------------------------------------------------------------
(* Password hashing *)

\* sha256 hex digest, as an injective tag of the plaintext (no collisions)
hashPassword(password) == IF ~Truthy(password) THEN "" ELSE "sha256:" \o password

verifyPassword(password, storedHash) ==
  IF ~Truthy(password) \/ ~Truthy(storedHash) THEN FALSE
  ELSE hashPassword(password) = storedHash

\* identifiers the model uses that match /^[a-zA-Z_][a-zA-Z0-9_]*$/
Identifiers ==
  {"a", "b", "t", "u", "v", "id", "ID", "name", "score", "age", "checked", "x", "constructor"}
isValidIdentifier(name) == name \in Identifiers

-----------------------------------------------------------------------------
(* Statements.  A statement is the parse of one ';'-separated command     *)
(* string: op is the command recognised by parseCommand and the case of   *)
(* the switch, name its database or table operand, pw the text captured by *)
(* the WITH PASSWORD group (Undefined without the clause), cols the comma  *)
(* separated fragments of a column definition list, text the raw command   *)
(* of a string that is no known command.                                   *)

Stmt(op, name) == [op |-> op, name |-> name, pw |-> Undefined, cols |-> <<>>, text |-> ""]
CreateDatabase(n) == Stmt("CREATE_DATABASE", n)
CreateDatabaseWithPassword(n, p) == [Stmt("CREATE_DATABASE", n) EXCEPT !.pw = p]
Use(n) == Stmt("USE", n)
DropDatabase(n) == Stmt("DROP_DATABASE", n)
CreateTable(n, cols) == [Stmt("CREATE_TABLE", n) EXCEPT !.cols = cols]
ShowDatabases == Stmt("SHOW_DATABASES", "")
ShowTables == Stmt("SHOW_TABLES", "")
DropTable(n) == Stmt("DROP_TABLE", n)
Other(text) == [Stmt("OTHER", "") EXCEPT !.text = text]

\* A literal of a statement: its text, and whether it stood in quotes.
Lit(text) == [quoted |-> FALSE, text |-> text]
Quoted(text) == [quoted |-> TRUE, text |-> text]

\* The WHERE capture group: absent, or a text in which the pattern
\* `column = value` is found (matched, with its two parts) or is not.
NoWhere == [present |-> FALSE, matched |-> FALSE, column |-> "", value |-> Lit("")]
Where(column, value) == [present |-> TRUE, matched |-> TRUE, column |-> column, value |-> value]
UnsupportedWhere == [present |-> TRUE, matched |-> FALSE, column |-> "", value |-> Lit("")]

\* The statements on rows and columns carry more captures: columns (the
\* column list of INSERT, the select list of SELECT, <<"*">> for *), values
\* (the VALUES list), set (the assignments of UPDATE, each a Where-shaped
\* `column = value`), where, orderBy / direction / limit (Undefined when the
\* clause is absent; limit is the text written behind LIMIT), column and
\* type (ALTER TABLE ... ADD COLUMN), newName (RENAME TABLE ... TO).
RowStmt(op, name) ==
  [op |-> op, name |-> name, pw |-> Undefined, cols |-> <<>>, text |-> "",
   columns |-> <<>>, values |-> <<>>, set |-> <<>>, where |-> NoWhere,
   orderBy |-> Undefined, direction |-> Undefined, limit |-> Undefined,
   column |-> "", type |-> "", newName |-> ""]
Describe(t) == RowStmt("DESCRIBE", t)
Insert(t, columns, values) == [RowStmt("INSERT", t) EXCEPT !.columns = columns, !.values = values]
Select(columns, t, where, orderBy, direction, limit) ==
  [RowStmt("SELECT", t) EXCEPT !.columns = columns, !.where = where, !.orderBy = orderBy,
                               !.direction = direction, !.limit = limit]
Delete(t, where) == [RowStmt("DELETE", t) EXCEPT !.where = where]
Update(t, set, where) == [RowStmt("UPDATE", t) EXCEPT !.set = set, !.where = where]
AlterTableAddColumn(t, column, type) ==
  [RowStmt("ALTER", t) EXCEPT !.column = column, !.type = type]
RenameTable(t, newName) == [RowStmt("RENAME", t) EXCEPT !.newName = newName]

\* one fragment of a column definition list
Col(name, type) == [kind |-> "col", name |-> name, type |-> type]
FragmentText(f) == IF f.kind = "col" THEN f.name \o " " \o f.type ELSE f.type

RECURSIVE Join(_, _)
Join(ss, sep) ==
  IF Len(ss) = 0 THEN ""
  ELSE IF Len(ss) = 1 THEN ss[1]
  ELSE ss[1] \o sep \o Join(Tail(ss), sep)

ColumnsText(cols) == Join([i \in 1..Len(cols) |-> FragmentText(cols[i])], ", ")

\* the command string of a statement
CommandText(s) ==
  CASE s.op = "CREATE_DATABASE" ->
         "CREATE DATABASE " \o s.name \o
           (IF s.pw = Undefined THEN "" ELSE " WITH PASSWORD '" \o s.pw \o "'")
    [] s.op = "USE" -> "USE " \o s.name
    [] s.op = "DROP_DATABASE" -> "DROP DATABASE " \o s.name
    [] s.op = "CREATE_TABLE" -> "CREATE TABLE " \o s.name \o " (" \o ColumnsText(s.cols) \o ")"
    [] s.op = "SHOW_DATABASES" -> "SHOW DATABASES"
    [] s.op = "SHOW_TABLES" -> "SHOW TABLES"
    [] s.op = "DROP_TABLE" -> "DROP TABLE " \o s.name
    [] OTHER -> s.text

\* the trimmed input line whose split on ';' gives the statements ln
LineText(ln) == Join([i \in 1..Len(ln) |-> CommandText(ln[i])], "; ")

-----------------------------------------------------------------------------
(* Text tables *)

RECURSIVE Repeat(_, _)
Repeat(s, n) == IF n <= 0 THEN "" ELSE s \o Repeat(s, n - 1)
padEnd(s, w) == s \o Repeat(" ", w - Len(s))

RECURSIVE MaxOf(_)
MaxOf(ns) == IF Len(ns) = 0 THEN 0
             ELSE LET m == MaxOf(Tail(ns)) IN IF ns[1] > m THEN ns[1] ELSE m

formatRow(row, colWidths) ==
  "| " \o Join([i \in 1..Len(row) |-> padEnd(row[i], colWidths[i])], " | ") \o " |"

formatTableOutput(headers, rows) ==
  IF Len(rows) = 0 /\ Len(headers) = 1 /\ headers[1] # "Field Definition"
       /\ ~StartsWith(headers[1], "Tables_in_")
    THEN <<"Empty set">>
  ELSE IF Len(rows) = 0 /\ Len(headers) = 1 /\ StartsWith(headers[1], "Tables_in_")
    THEN <<"Empty set (0 tables in "
             \o SubSeq(headers[1], Len("Tables_in_") + 1, Len(headers[1])) \o ")">>
  ELSE IF Len(rows) = 0 /\ Len(headers) > 0 /\ headers[1] = "Database"
    THEN <<"Empty set (0 databases)">>
  ELSE IF Len(rows) = 0
    THEN IF Len(headers) > 0 /\ headers[1] = "Field"
           THEN <<"Table has no columns or definition is malformed.">>
           ELSE <<"Empty set">>
  ELSE
    LET colWidths == [i \in 1..Len(headers) |->
                        LET w == MaxOf([r \in 1..Len(rows) |-> Len(rows[r][i])])
                        IN IF Len(headers[i]) > w THEN Len(headers[i]) ELSE w]
        separator == "+" \o Join([i \in 1..Len(headers) |-> Repeat("-", colWidths[i] + 2)], "+") \o "+"
    IN <<separator, formatRow(headers, colWidths), separator>>
         \o [r \in 1..Len(rows) |-> formatRow(rows[r], colWidths)]
         \o <<separator>>

-----------------------------------------------------------------------------
(* Cell values.  A cell of a row holds null, a number or a string; reading *)
(* a column the row has no property for gives undefined.  A number is an   *)
(* integer n, +-Infinity, NaN, or an integer of 22 or more digits, which is *)
(* at least 10^21 and is kept as the one value +-10^21 (the only literal   *)
(* of that size the statements use).  Fractions are not represented: no    *)
(* literal of the statements has one.                                      *)

Val(t, n, s) == [t |-> t, n |-> n, s |-> s]
VNull == Val("null", 0, "")
VUndefined == Val("undef", 0, "")
VStr(s) == Val("str", 0, s)
VNum(n) == Val("num", n, "")
VInfinity(sign) == Val("inf", sign, "")
VBig(sign) == Val("big", sign, "")
VNaN == Val("nan", 0, "")

\* typeof v === 'number', isNaN(v) of a number
IsNumber(v) == v.t \in {"num", "inf", "big", "nan"}
IsNaN(v) == v.t = "nan"

\* a < b on numbers that are not NaN
NumClass(v) == CASE v.t = "inf" -> 2 * v.n [] v.t = "big" -> v.n [] OTHER -> 0
NumLess(a, b) ==
  \/ NumClass(a) < NumClass(b)
  \/ NumClass(a) = NumClass(b) /\ a.t = "num" /\ a.n < b.n

CharAt(s, i) == SubSeq(s, i, i)
IndexIn(c, alphabet) ==
  IF \E i \in 1..Len(alphabet) : CharAt(alphabet, i) = c
    THEN CHOOSE i \in 1..Len(alphabet) : CharAt(alphabet, i) = c
    ELSE 0
LowerLetters == "abcdefghijklmnopqrstuvwxyz"
UpperLetters == "ABCDEFGHIJKLMNOPQRSTUVWXYZ"
DecimalDigits == "0123456789"

CharsOf(alphabet) == {CharAt(alphabet, i) : i \in 1..Len(alphabet)}
UpperToLower == [c \in CharsOf(UpperLetters) |-> CharAt(LowerLetters, IndexIn(c, UpperLetters))]
LowerToUpper == [c \in CharsOf(LowerLetters) |-> CharAt(UpperLetters, IndexIn(c, LowerLetters))]
DigitValue == [c \in CharsOf(DecimalDigits) |-> IndexIn(c, DecimalDigits) - 1]

\* s with every character in the domain of m replaced by its image
RECURSIVE MapChars(_, _)
MapChars(s, m) ==
  IF s = "" THEN ""
  ELSE LET c == CharAt(s, 1)
       IN (IF c \in DOMAIN m THEN m[c] ELSE c) \o MapChars(SubSeq(s, 2, Len(s)), m)
toLowerCase(s) == MapChars(s, UpperToLower)
toUpperCase(s) == MapChars(s, LowerToUpper)

\* a < b on strings: by UTF-16 code unit, the first difference decides
CodeUnits == " '+-0123456789ABCDEFGHIJKLMNOPQRSTUVWXYZ_abcdefghijklmnopqrstuvwxyz"
CodeUnit == [c \in CharsOf(CodeUnits) |-> IndexIn(c, CodeUnits)]
RECURSIVE StrLess(_, _)
StrLess(a, b) ==
  IF b = "" THEN FALSE
  ELSE IF a = "" THEN TRUE
  ELSE IF CharAt(a, 1) = CharAt(b, 1) THEN StrLess(SubSeq(a, 2, Len(a)), SubSeq(b, 2, Len(b)))
  ELSE CodeUnit[CharAt(a, 1)] < CodeUnit[CharAt(b, 1)]

\* the longest prefix of s made of decimal digits
RECURSIVE DigitPrefix(_)
DigitPrefix(s) ==
  IF s = "" \/ CharAt(s, 1) \notin DOMAIN DigitValue THEN ""
  ELSE CharAt(s, 1) \o DigitPrefix(SubSeq(s, 2, Len(s)))

RECURSIVE DigitsValue(_, _)
DigitsValue(ds, acc) ==
  IF ds = "" THEN acc
  ELSE DigitsValue(SubSeq(ds, 2, Len(ds)), 10 * acc + DigitValue[CharAt(ds, 1)])

RECURSIVE Pow10(_)
Pow10(e) == IF e <= 0 THEN 1 ELSE 10 * Pow10(e - 1)

\* the number sign * ds * 10^e for a digit string ds
Scaled(sign, ds, e) ==
  IF \A i \in 1..Len(ds) : CharAt(ds, i) = "0" THEN VNum(0)
  ELSE IF Len(ds) + e >= 22 THEN VBig(sign)
  ELSE VNum(sign * DigitsValue(ds, 0) * Pow10(e))

SignOf(s) == IF s # "" /\ CharAt(s, 1) = "-" THEN -1 ELSE 1
Unsigned(s) == IF s # "" /\ CharAt(s, 1) \in {"-", "+"} THEN SubSeq(s, 2, Len(s)) ELSE s

\* parseInt(s, 10): an optional sign and the digits that follow it
parseInt(s) ==
  Let(DigitPrefix(Unsigned(s)), LAMBDA ds :
    IF ds = "" THEN VNaN ELSE Scaled(SignOf(s), ds, 0))

\* parseFloat(s): an optional sign, then Infinity or digits with an optional
\* exponent
parseFloat(s) ==
  Let(Unsigned(s), LAMBDA u :
  Let(DigitPrefix(u), LAMBDA ds :
  Let(SubSeq(u, Len(ds) + 1, Len(u)), LAMBDA after :
  Let(IF after # "" /\ CharAt(after, 1) \in {"e", "E"}
        THEN DigitPrefix(Unsigned(SubSeq(after, 2, Len(after))))
        ELSE "", LAMBDA es :
    IF StartsWith(u, "Infinity") THEN VInfinity(SignOf(s))
    ELSE IF ds = "" THEN VNaN
    ELSE Scaled(SignOf(s), ds, IF es = "" THEN 0 ELSE DigitsValue(es, 0))))))

\* String(v)
String(v) ==
  CASE v.t = "null" -> "null"
    [] v.t = "undef" -> "undefined"
    [] v.t = "str" -> v.s
    [] v.t = "num" -> ToString(v.n)
    [] v.t = "inf" -> IF v.n < 0 THEN "-Infinity" ELSE "Infinity"
    [] v.t = "big" -> IF v.n < 0 THEN "-1e+21" ELSE "1e+21"
    [] OTHER -> "NaN"

\* JSON.parse(JSON.stringify(v)) of a cell: Infinity and NaN are written as null
JsonCloneValue(v) == IF v.t \in {"inf", "nan"} THEN VNull ELSE v

-----------------------------------------------------------------------------
(* The store.  DatabasesStructure is a plain object from database name to  *)
(* DatabaseSchema {tables, passwordHash?}; tables is a plain object from   *)
(* table name to TableSchema {columnsDefinition, parsedColumns, data}.     *)

DatabaseSchema(tables, passwordHash) == [tables |-> tables, passwordHash |-> passwordHash]
TableSchema(columnsDefinition, parsedColumns, data) ==
  [columnsDefinition |-> columnsDefinition, parsedColumns |-> parsedColumns, data |-> data]

\* databases[name].passwordHash is truthy
IsProtected(dbs, name) == OwnHas(dbs, name) /\ Truthy(Get(dbs, name).passwordHash)

\* JSON.parse(JSON.stringify(databases)): rebuilt member by member; a property
\* whose value is undefined is not written
JsonCloneRow(row) == [i \in 1..Len(row) |-> [k |-> row[i].k, v |-> JsonCloneValue(row[i].v)]]
JsonCloneTable(t) ==
  TableSchema(t.columnsDefinition, t.parsedColumns,
              [r \in 1..Len(t.data) |-> JsonCloneRow(t.data[r])])
\* the function Object, the value of tables['constructor'] of any tables
\* object; as a table it has no columnsDefinition, parsedColumns or data
ObjectFunction == TableSchema(Undefined, <<>>, <<>>)
\* a tables property holding undefined (what RENAME TABLE stores when the
\* table it moves is missing from the clone)
UndefinedProperty == TableSchema(Null, <<>>, <<>>)
\* a property whose value is a function or undefined is not written either
JsonCloneDb(db) ==
  LET kept == SelectSeq(db.tables, LAMBDA e : e.v \notin {ObjectFunction, UndefinedProperty})
  IN DatabaseSchema([i \in 1..Len(kept) |-> [k |-> kept[i].k, v |-> JsonCloneTable(kept[i].v)]],
                    db.passwordHash)
JsonClone(dbs) == [i \in 1..Len(dbs) |-> [k |-> dbs[i].k, v |-> JsonCloneDb(dbs[i].v)]]

\* databases[currentDbName].tables[tableName]: "none" (undefined), "table"
\* (a TableSchema) or "function" (the function Object, inherited under the
\* name constructor or stored by a RENAME of it)
TableKind(tables, tableName) ==
  IF OwnHas(tables, tableName)
    THEN CASE Get(tables, tableName) = ObjectFunction -> "function"
           [] Get(tables, tableName) = UndefinedProperty -> "none"
           [] OTHER -> "table"
  ELSE IF tableName \in ObjectPrototypeNames THEN "function"
  ELSE "none"

\* What a handler returns.  newDatabases and newCurrentDb are optional:
\* hasNewDatabases / hasNewCurrentDb say whether the property is present
\* (newCurrentDb may be present and null).  threw: the call ended in a TypeError.
Result(dbs) ==
  [newDatabases |-> dbs, hasNewDatabases |-> FALSE,
   newCurrentDb |-> Null, hasNewCurrentDb |-> FALSE,
   output |-> NoOutput,
   requiresPasswordInput |-> FALSE, dbToAuth |-> Null,
   requiresPasswordInputForDrop |-> FALSE, dbToAuthForDrop |-> Null,
   threw |-> FALSE]
Threw(dbs) == [Result(dbs) EXCEPT !.threw = TRUE]

-----------------------------------------------------------------------------
(* Database handlers *)

\* handleCreateDatabase without the `if (databases[dbName])` check
handleCreateDatabaseOverwrites(s, dbs) ==
  LET dbName == s.name
      password == s.pw
      failed(msg) == [Result(dbs) EXCEPT !.hasNewDatabases = TRUE, !.output = Str(msg)]
  IN IF ~isValidIdentifier(dbName)
       THEN failed("Error: Invalid CREATE DATABASE syntax. Expected: CREATE DATABASE <db_name> [WITH PASSWORD '<password>'];")
     ELSE IF Truthy(password) /\ Len(password) < 4
       THEN failed("Error: Password for database '" \o dbName \o "' must be at least 4 characters long.")
     ELSE
       LET passwordHash == IF Truthy(password) THEN hashPassword(password) ELSE Undefined
           newDbSchema == DatabaseSchema(EmptyObj,
                                         IF Truthy(passwordHash) THEN passwordHash ELSE Undefined)
       IN [Result(dbs) EXCEPT
             !.hasNewDatabases = TRUE,
             !.newDatabases = Put(dbs, dbName, newDbSchema),
             !.output = Str("Database '" \o dbName \o "' created successfully."
                            \o (IF Truthy(passwordHash) THEN " It is password protected." ELSE ""))]

\* CREATE DATABASE keeping the password as given instead of its hash
handleCreateDatabaseStoresPlaintext(s, dbs) ==
  LET dbName == s.name
      password == s.pw
      failed(msg) == [Result(dbs) EXCEPT !.hasNewDatabases = TRUE, !.output = Str(msg)]
  IN IF ~isValidIdentifier(dbName)
       THEN failed("Error: Invalid CREATE DATABASE syntax. Expected: CREATE DATABASE <db_name> [WITH PASSWORD '<password>'];")
     ELSE IF Lookup(dbs, dbName) # "none"
       THEN failed("Error: Database '" \o dbName \o "' already exists.")
     ELSE IF Truthy(password) /\ Len(password) < 4
       THEN failed("Error: Password for database '" \o dbName \o "' must be at least 4 characters long.")
     ELSE
       LET passwordHash == IF Truthy(password) THEN password ELSE Undefined
           newDbSchema == DatabaseSchema(EmptyObj,
                                         IF Truthy(passwordHash) THEN passwordHash ELSE Undefined)
       IN [Result(dbs) EXCEPT
             !.hasNewDatabases = TRUE,
             !.newDatabases = Put(dbs, dbName, newDbSchema),
             !.output = Str("Database '" \o dbName \o "' created successfully."
                            \o (IF Truthy(passwordHash) THEN " It is password protected." ELSE ""))]

handleCreateDatabase(s, dbs) ==
  LET dbName == s.name
      password == s.pw
      failed(msg) == [Result(dbs) EXCEPT !.hasNewDatabases = TRUE, !.output = Str(msg)]
  IN IF ~isValidIdentifier(dbName)
       THEN failed("Error: Invalid CREATE DATABASE syntax. Expected: CREATE DATABASE <db_name> [WITH PASSWORD '<password>'];")
     ELSE IF Lookup(dbs, dbName) # "none"
       THEN failed("Error: Database '" \o dbName \o "' already exists.")
     ELSE IF Truthy(password) /\ Len(password) < 4
       THEN failed("Error: Password for database '" \o dbName \o "' must be at least 4 characters long.")
     ELSE
       LET passwordHash == IF Truthy(password) THEN hashPassword(password) ELSE Undefined
           newDbSchema == DatabaseSchema(EmptyObj,
                                         IF Truthy(passwordHash) THEN passwordHash ELSE Undefined)
       IN [Result(dbs) EXCEPT
             !.hasNewDatabases = TRUE,
             !.newDatabases = Put(dbs, dbName, newDbSchema),
             !.output = Str("Database '" \o dbName \o "' created successfully."
                            \o (IF Truthy(passwordHash) THEN " It is password protected." ELSE ""))]

handleShowDatabases(dbs) ==
  LET dbNames == Keys(dbs)
  IN IF Len(dbNames) = 0 THEN <<"Empty set (0 databases)">>
     ELSE formatTableOutput(<<"Database">>, [i \in 1..Len(dbNames) |-> <<dbNames[i]>>])

handleUseDatabase(dbName, dbs) ==
  IF Lookup(dbs, dbName) = "none"
    THEN [Result(dbs) EXCEPT !.output = Str("Error: Unknown database '" \o dbName \o "'.")]
  ELSE IF IsProtected(dbs, dbName)
    THEN [Result(dbs) EXCEPT
            !.output = Arr(<<"Password required for database '" \o dbName \o "'.",
                             "Enter password on the next line:">>),
            !.requiresPasswordInput = TRUE,
            !.dbToAuth = dbName]
  ELSE [Result(dbs) EXCEPT
          !.hasNewCurrentDb = TRUE, !.newCurrentDb = dbName,
          !.output = Str("Database changed to '" \o dbName \o "'.")]

handlePasswordAttempt(dbName, enteredPassword, dbs) ==
  IF ~IsProtected(dbs, dbName)
    THEN [Result(dbs) EXCEPT
            !.hasNewCurrentDb = TRUE, !.newCurrentDb = Null,
            !.output = Str("Error: Database '" \o dbName \o "' is not password protected or does not exist.")]
  ELSE IF verifyPassword(enteredPassword, Get(dbs, dbName).passwordHash)
    THEN [Result(dbs) EXCEPT
            !.hasNewCurrentDb = TRUE, !.newCurrentDb = dbName,
            !.output = Str("Access granted. Database changed to '" \o dbName \o "'.")]
  ELSE [Result(dbs) EXCEPT
          !.hasNewCurrentDb = TRUE, !.newCurrentDb = Null,
          !.output = Str("Error: Invalid password for database '" \o dbName \o "'. Access denied.")]

handleDropDatabase(dbNameToDrop, currentDbName, dbs) ==
  IF Lookup(dbs, dbNameToDrop) = "none"
    THEN [Result(dbs) EXCEPT !.output = Str("Error: Database '" \o dbNameToDrop \o "' does not exist.")]
  ELSE IF IsProtected(dbs, dbNameToDrop) /\ currentDbName # dbNameToDrop
    THEN [Result(dbs) EXCEPT
            !.output = Arr(<<"Password required to drop database '" \o dbNameToDrop \o "'.",
                             "Enter password on the next line:">>),
            !.requiresPasswordInputForDrop = TRUE,
            !.dbToAuthForDrop = dbNameToDrop]
  ELSE [Result(dbs) EXCEPT
          !.hasNewDatabases = TRUE,
          !.newDatabases = Del(JsonClone(dbs), dbNameToDrop),
          !.hasNewCurrentDb = TRUE,
          !.newCurrentDb = IF currentDbName = dbNameToDrop THEN Null ELSE currentDbName,
          !.output = Str("Database '" \o dbNameToDrop \o "' dropped successfully.")]

\* the drop attempt without the comparison of the hashes
handlePasswordAttemptAndDropDatabaseUnverified(dbNameToDrop, enteredPassword, currentDbName, dbs) ==
  IF ~IsProtected(dbs, dbNameToDrop)
    THEN [Result(dbs) EXCEPT
            !.output = Str("Error: Database '" \o dbNameToDrop \o "' is not password protected or does not exist.")]
  ELSE [Result(dbs) EXCEPT
          !.hasNewDatabases = TRUE,
          !.newDatabases = Del(JsonClone(dbs), dbNameToDrop),
          !.hasNewCurrentDb = TRUE,
          !.newCurrentDb = IF currentDbName = dbNameToDrop THEN Null ELSE currentDbName,
          !.output = Str("Database '" \o dbNameToDrop \o "' dropped successfully.")]

handlePasswordAttemptAndDropDatabase(dbNameToDrop, enteredPassword, currentDbName, dbs) ==
  IF ~IsProtected(dbs, dbNameToDrop)
    THEN [Result(dbs) EXCEPT
            !.output = Str("Error: Database '" \o dbNameToDrop \o "' is not password protected or does not exist.")]
  ELSE IF verifyPassword(enteredPassword, Get(dbs, dbNameToDrop).passwordHash)
    THEN [Result(dbs) EXCEPT
            !.hasNewDatabases = TRUE,
            !.newDatabases = Del(JsonClone(dbs), dbNameToDrop),
            !.hasNewCurrentDb = TRUE,
            !.newCurrentDb = IF currentDbName = dbNameToDrop THEN Null ELSE currentDbName,
            !.output = Str("Database '" \o dbNameToDrop \o "' dropped successfully.")]
  ELSE [Result(dbs) EXCEPT
          !.output = Str("Error: Invalid password for dropping database '" \o dbNameToDrop \o "'. Drop failed.")]

-----------------------------------------------------------------------------
(* Table handlers *)

\* The fragments of the definition list that are 'name type' columns, in
\* order: table-level constraints are skipped, fragments that are neither
\* are ignored with a warning.
parseColumnDefinitions(cols) ==
  LET kept == SelectSeq(cols, LAMBDA f : f.kind = "col")
  IN [i \in 1..Len(kept) |-> [name |-> kept[i].name, type |-> toUpperCase(kept[i].type)]]

handleCreateTable(s, currentDbName, dbs) ==
  LET tableName == s.name
      columnsDefinitionStr == ColumnsText(s.cols)
      failed(msg) == [Result(dbs) EXCEPT !.hasNewDatabases = TRUE, !.output = Str(msg)]
  IN IF ~Truthy(currentDbName)
       THEN failed("Error: No database selected. Use 'USE <database_name>;'.")
     ELSE IF ~isValidIdentifier(tableName) \/ columnsDefinitionStr = ""
       THEN failed("Error: Invalid CREATE TABLE syntax. Expected: CREATE TABLE table_name (column1_def, column2_def, ...);")
     ELSE IF Lookup(dbs, currentDbName) = "inherited"
       \* databases[currentDbName] is a member of Object.prototype: its
       \* .tables is undefined and .tables[tableName] throws
       THEN Threw(dbs)
     ELSE IF Lookup(dbs, currentDbName) = "own"
             /\ TableKind(Get(dbs, currentDbName).tables, tableName) # "none"
       THEN failed("Error: Table '" \o tableName \o "' already exists in database '" \o currentDbName \o "'.")
     ELSE
       LET parsedColumns == parseColumnDefinitions(s.cols)
           onlyConstraintsOrEmpty == \A i \in 1..Len(s.cols) : s.cols[i].kind = "constraint"
       IN IF Len(parsedColumns) = 0 /\ ~onlyConstraintsOrEmpty
            THEN failed("Error: Could not parse any valid column definitions for table '" \o tableName \o "'.")
          ELSE
            LET newTable == TableSchema(columnsDefinitionStr, parsedColumns, <<>>)
                \* { ...databases[currentDbName], tables: { ...(databases[currentDbName]?.tables || {}), [tableName]: newTable } }
                updatedDb ==
                  IF Lookup(dbs, currentDbName) = "own"
                    THEN DatabaseSchema(Put(Get(dbs, currentDbName).tables, tableName, newTable),
                                        Get(dbs, currentDbName).passwordHash)
                    ELSE DatabaseSchema(Put(EmptyObj, tableName, newTable), Undefined)
            IN [Result(dbs) EXCEPT
                  !.hasNewDatabases = TRUE,
                  !.newDatabases = Put(dbs, currentDbName, updatedDb),
                  !.output = Str("Table '" \o tableName \o "' created successfully in database '"
                                 \o currentDbName \o "'.")]

handleShowTables(currentDbName, dbs) ==
  IF ~Truthy(currentDbName)
    THEN [Result(dbs) EXCEPT !.output = Arr(<<"Error: No database selected. Use 'USE <database_name>;'.">>)]
  ELSE IF Lookup(dbs, currentDbName) = "none"
    THEN [Result(dbs) EXCEPT !.output = Arr(<<"Error: Current database '" \o currentDbName \o "' not found.">>)]
  ELSE IF Lookup(dbs, currentDbName) = "inherited"
    \* Object.keys(db.tables) with db.tables undefined
    THEN Threw(dbs)
  ELSE
    LET tableNames == Keys(Get(dbs, currentDbName).tables)
    IN [Result(dbs) EXCEPT
          !.output = Arr(formatTableOutput(<<"Tables_in_" \o currentDbName>>,
                                           [i \in 1..Len(tableNames) |-> <<tableNames[i]>>]))]

handleDropTable(tableName, currentDbName, dbs) ==
  IF ~Truthy(currentDbName) \/ Lookup(dbs, currentDbName) = "none"
    THEN [Result(dbs) EXCEPT !.output = Str("Error: No database selected or database does not exist.")]
  ELSE IF Lookup(dbs, currentDbName) = "inherited"
    \* databases[currentDbName].tables is undefined
    THEN Threw(dbs)
  ELSE IF TableKind(Get(dbs, currentDbName).tables, tableName) = "none"
    THEN [Result(dbs) EXCEPT
            !.output = Str("Error: Table '" \o tableName \o "' does not exist in database '" \o currentDbName \o "'.")]
  ELSE
    LET cloned == JsonClone(dbs)
        db == Get(cloned, currentDbName)
    IN [Result(dbs) EXCEPT
          !.hasNewDatabases = TRUE,
          !.newDatabases = Put(cloned, currentDbName,
                               DatabaseSchema(Del(db.tables, tableName), db.passwordHash)),
          !.output = Str("Table '" \o tableName \o "' dropped successfully.")]

-----------------------------------------------------------------------------
(* Row handlers.  A row is a plain object from column name to cell value.  *)

\* row[column]
Cell(row, column) == IF OwnHas(row, column) THEN Get(row, column) ELSE VUndefined

\* colTypeUpper.startsWith('INT') || ...('INTEGER') || ...('NUMBER')
IsIntType(type) ==
  Let(toUpperCase(type), LAMBDA colTypeUpper :
    StartsWith(colTypeUpper, "INT") \/ StartsWith(colTypeUpper, "INTEGER")
      \/ StartsWith(colTypeUpper, "NUMBER"))
\* colTypeUpper.startsWith('FLOAT') || ...('DOUBLE') || ...('REAL')
IsFloatType(type) ==
  Let(toUpperCase(type), LAMBDA colTypeUpper :
    StartsWith(colTypeUpper, "FLOAT") \/ StartsWith(colTypeUpper, "DOUBLE")
      \/ StartsWith(colTypeUpper, "REAL"))

\* parsedColumns.find(c => c.name.toLowerCase() === name.toLowerCase()):
\* the index of the first such column, 0 when there is none
FindColumn(parsedColumns, name) ==
  Let({i \in 1..Len(parsedColumns) : toLowerCase(parsedColumns[i].name) = toLowerCase(name)},
      LAMBDA hits : IF hits = {} THEN 0 ELSE CHOOSE i \in hits : \A j \in hits : i <= j)

\* the store with the table tableName of the database currentDbName replaced
WithTable(dbs, currentDbName, tableName, table) ==
  LET db == Get(dbs, currentDbName)
  IN Put(dbs, currentDbName, DatabaseSchema(Put(db.tables, tableName, table), db.passwordHash))

handleDescribeTable(tableName, currentDbName, dbs) ==
  IF ~Truthy(currentDbName)
    THEN [Result(dbs) EXCEPT !.output = Arr(<<"Error: No database selected. Use 'USE <database_name>;'.">>)]
  ELSE IF Lookup(dbs, currentDbName) = "inherited"
    \* databases[currentDbName]?.tables is undefined, [tableName] of it throws
    THEN Threw(dbs)
  ELSE IF Lookup(dbs, currentDbName) = "none"
          \/ TableKind(Get(dbs, currentDbName).tables, tableName) = "none"
    THEN [Result(dbs) EXCEPT
            !.output = Arr(<<"Error: Unknown table '" \o tableName \o "' in database '"
                             \o currentDbName \o "'.">>)]
  ELSE IF TableKind(Get(dbs, currentDbName).tables, tableName) = "function"
    \* table.parsedColumns is undefined
    THEN Threw(dbs)
  ELSE
    LET table == Get(Get(dbs, currentDbName).tables, tableName)
        rows == [i \in 1..Len(table.parsedColumns) |->
                   <<table.parsedColumns[i].name, toUpperCase(table.parsedColumns[i].type)>>]
    IN [Result(dbs) EXCEPT !.output = Arr(formatTableOutput(<<"Field", "Type">>, rows))]

\* One value of the VALUES list: NULL without quotes is null, a quoted text
\* loses its quotes, anything else is kept as written.
InsertValue(lit) ==
  IF ~lit.quoted /\ toUpperCase(lit.text) = "NULL" THEN VNull ELSE VStr(lit.text)

\* the coercion that stores 0 for a text that is no number
InsertCoercedLenient(type, value) ==
  IF value = VNull THEN VNull
  ELSE IF IsIntType(type)
    THEN (IF IsNaN(parseInt(value.s)) THEN VNum(0) ELSE parseInt(value.s))
  ELSE IF IsFloatType(type)
    THEN (IF IsNaN(parseFloat(value.s)) THEN VNum(0) ELSE parseFloat(value.s))
  ELSE value

\* The value stored for values[i] in a column of the given type: NaN stands
\* for the failed coercion.
InsertCoerced(type, value) ==
  IF value = VNull THEN VNull
  ELSE IF IsIntType(type) THEN parseInt(value.s)
  ELSE IF IsFloatType(type) THEN parseFloat(value.s)
  ELSE value

\* newRow with the keys in upper case
RECURSIVE InsertRowUpperCase(_, _, _)
InsertRowUpperCase(targetColumns, values, i) ==
  IF i = 0 THEN EmptyObj
  ELSE Put(InsertRowUpperCase(targetColumns, values, i - 1), toUpperCase(targetColumns[i].name),
           InsertCoerced(targetColumns[i].type, values[i]))

\* newRow after the first i target columns
RECURSIVE InsertRow(_, _, _)
InsertRow(targetColumns, values, i) ==
  IF i = 0 THEN EmptyObj
  ELSE Put(InsertRow(targetColumns, values, i - 1), targetColumns[i].name,
           InsertCoerced(targetColumns[i].type, values[i]))

handleInsertData(s, currentDbName, dbs) ==
  LET tableName == s.name
      failed(msg) == [Result(dbs) EXCEPT !.output = Str(msg)]
  IN IF ~Truthy(currentDbName) \/ Lookup(dbs, currentDbName) = "none"
       THEN failed("Error: No database selected or database does not exist. Use 'USE <database_name>;'.")
     ELSE IF ~isValidIdentifier(tableName) \/ s.values = <<>>
       THEN failed("Error: Invalid INSERT syntax. Expected: INSERT INTO table_name [(col1, col2, ...)] VALUES (val1, val2, ...);")
     ELSE IF Lookup(dbs, currentDbName) = "inherited"
       THEN Threw(dbs)
     ELSE IF TableKind(Get(dbs, currentDbName).tables, tableName) = "none"
       THEN failed("Error: Table '" \o tableName \o "' does not exist in database '" \o currentDbName \o "'.")
     ELSE IF TableKind(Get(dbs, currentDbName).tables, tableName) = "function"
       \* table.parsedColumns is undefined: .find and .length of it throw
       THEN Threw(dbs)
     ELSE
       Let(Get(Get(dbs, currentDbName).tables, tableName), LAMBDA table :
       Let([i \in 1..Len(s.values) |-> InsertValue(s.values[i])], LAMBDA values :
       Let({i \in 1..Len(s.columns) : FindColumn(table.parsedColumns, s.columns[i]) = 0},
           LAMBDA notFound :
         IF notFound # {}
           THEN failed("Error: Column '" \o s.columns[CHOOSE i \in notFound : \A j \in notFound : i <= j]
                       \o "' not found in table '" \o tableName \o "'.")
         ELSE
       Let(IF s.columns # <<>>
             THEN [i \in 1..Len(s.columns) |->
                     table.parsedColumns[FindColumn(table.parsedColumns, s.columns[i])]]
             ELSE table.parsedColumns, LAMBDA targetColumns :
         IF Len(values) # Len(targetColumns)
           THEN failed("Error: Column count (" \o ToString(Len(targetColumns))
                       \o ") does not match value count (" \o ToString(Len(values))
                       \o "). Expected " \o ToString(Len(targetColumns)) \o " values for columns: "
                       \o Join([i \in 1..Len(targetColumns) |-> targetColumns[i].name], ", ") \o ".")
         ELSE
       Let({i \in 1..Len(targetColumns) : IsNaN(InsertCoerced(targetColumns[i].type, values[i]))},
           LAMBDA invalid :
         IF invalid # {}
           THEN Let(CHOOSE k \in invalid : \A j \in invalid : k <= j, LAMBDA i :
                  failed("Error: Invalid "
                         \o (IF IsIntType(targetColumns[i].type) THEN "integer" ELSE "float")
                         \o " value '" \o values[i].s \o "' for column '"
                         \o targetColumns[i].name \o "'."))
         ELSE
       Let(InsertRow(targetColumns, values, Len(targetColumns)), LAMBDA newRow :
       Let(Append(table.data, newRow), LAMBDA updatedTableData :
         [Result(dbs) EXCEPT
            !.hasNewDatabases = TRUE,
            !.newDatabases = WithTable(dbs, currentDbName, tableName,
                                       [table EXCEPT !.data = updatedTableData]),
            !.output = Str("1 row inserted into '" \o tableName \o "'.")])))))))

\* parseWhereClause: an error message, or the row filter: every row (all),
\* or the rows whose cell of the column compares equal to filterValue
parseWhereClause(where, table) ==
  LET filter(error, all, column, filterValue) ==
        [error |-> error, all |-> all, column |-> column, filterValue |-> filterValue]
      filterValueStr == where.value.text
  IN IF ~where.present THEN filter("", TRUE, "", VNull)
     ELSE IF ~where.matched
       THEN filter("Error: Unsupported WHERE clause format. Use 'column = value' or 'column = \"text value\"' or column = 'text value'.",
                   FALSE, "", VNull)
     ELSE
       Let(FindColumn(table.parsedColumns, where.column), LAMBDA c :
         IF c = 0
           THEN filter("Error: Column '" \o where.column \o "' not found in WHERE clause for table. Available columns: "
                       \o Join([i \in 1..Len(table.parsedColumns) |-> table.parsedColumns[i].name], ", ") \o ".",
                       FALSE, "", VNull)
         ELSE
           Let(table.parsedColumns[c], LAMBDA colDef :
           Let(IF toUpperCase(filterValueStr) = "NULL" THEN VNull
               ELSE IF IsIntType(colDef.type) THEN parseInt(filterValueStr)
               ELSE IF IsFloatType(colDef.type) THEN parseFloat(filterValueStr)
               ELSE VStr(filterValueStr), LAMBDA filterValue :
             IF IsNaN(filterValue)
               THEN filter("Error: Invalid " \o (IF IsIntType(colDef.type) THEN "number" ELSE "float")
                           \o " for comparison in WHERE clause for column '" \o where.column
                           \o "'. Value was '" \o filterValueStr \o "'.",
                           FALSE, "", VNull)
             ELSE filter("", FALSE, colDef.name, filterValue))))

\* filterFn(row)
filterFn(f, row) ==
  IF f.all THEN TRUE
  ELSE LET rowValue == Cell(row, f.column)
       IN IF IsNumber(f.filterValue) /\ IsNumber(rowValue)
            THEN ~IsNaN(rowValue) /\ rowValue = f.filterValue
          ELSE IF f.filterValue.t = "str" /\ rowValue.t = "str"
            THEN toLowerCase(rowValue.s) = toLowerCase(f.filterValue.s)
          ELSE rowValue = f.filterValue

\* valA, valB of the comparator: the cell as the column type has it compared
SortValue(type, v) ==
  IF IsIntType(type) THEN parseInt(String(v))
  ELSE IF IsFloatType(type) THEN parseFloat(String(v))
  ELSE VStr(toLowerCase(String(v)))

\* valA < valB
SortValueLess(x, y) == IF x.t = "str" THEN StrLess(x.s, y.s) ELSE NumLess(x, y)

\* the comparator of a descending sort that is an ascending sort reversed:
\* of two rows with equal keys the later one comes first
compareRowsReversed(rowA, rowB, orderByColumnFound, effectiveOrderByDirection) ==
  Let(Cell(rowA, orderByColumnFound.name), LAMBDA a :
  Let(Cell(rowB, orderByColumnFound.name), LAMBDA b :
  Let(effectiveOrderByDirection = "ASC", LAMBDA asc :
  Let(SortValue(orderByColumnFound.type, a), LAMBDA valA :
  Let(SortValue(orderByColumnFound.type, b), LAMBDA valB :
    IF a = VNull /\ b # VNull THEN (IF asc THEN -1 ELSE 1)
    ELSE IF a # VNull /\ b = VNull THEN (IF asc THEN 1 ELSE -1)
    ELSE IF a = VNull /\ b = VNull THEN (IF asc THEN 0 ELSE -1)
    ELSE IF IsNaN(valA) /\ ~IsNaN(valB) THEN (IF asc THEN -1 ELSE 1)
    ELSE IF ~IsNaN(valA) /\ IsNaN(valB) THEN (IF asc THEN 1 ELSE -1)
    ELSE IF IsNaN(valA) /\ IsNaN(valB) THEN (IF asc THEN 0 ELSE -1)
    ELSE IF SortValueLess(valA, valB) THEN (IF asc THEN -1 ELSE 1)
    ELSE IF SortValueLess(valB, valA) THEN (IF asc THEN 1 ELSE -1)
    ELSE (IF asc THEN 0 ELSE -1))))))

\* the comparator that puts null first in both directions
compareRowsNullFirst(rowA, rowB, orderByColumnFound, effectiveOrderByDirection) ==
  Let(Cell(rowA, orderByColumnFound.name), LAMBDA a :
  Let(Cell(rowB, orderByColumnFound.name), LAMBDA b :
  Let(effectiveOrderByDirection = "ASC", LAMBDA asc :
  Let(SortValue(orderByColumnFound.type, a), LAMBDA valA :
  Let(SortValue(orderByColumnFound.type, b), LAMBDA valB :
    IF a = VNull /\ b # VNull THEN -1
    ELSE IF a # VNull /\ b = VNull THEN 1
    ELSE IF a = VNull /\ b = VNull THEN 0
    ELSE IF IsNaN(valA) /\ ~IsNaN(valB) THEN (IF asc THEN -1 ELSE 1)
    ELSE IF ~IsNaN(valA) /\ IsNaN(valB) THEN (IF asc THEN 1 ELSE -1)
    ELSE IF IsNaN(valA) /\ IsNaN(valB) THEN 0
    ELSE IF SortValueLess(valA, valB) THEN (IF asc THEN -1 ELSE 1)
    ELSE IF SortValueLess(valB, valA) THEN (IF asc THEN 1 ELSE -1)
    ELSE 0)))))

\* the comparator of ORDER BY: negative, zero or positive
compareRows(rowA, rowB, orderByColumnFound, effectiveOrderByDirection) ==
  Let(Cell(rowA, orderByColumnFound.name), LAMBDA a :
  Let(Cell(rowB, orderByColumnFound.name), LAMBDA b :
  Let(effectiveOrderByDirection = "ASC", LAMBDA asc :
  Let(SortValue(orderByColumnFound.type, a), LAMBDA valA :
  Let(SortValue(orderByColumnFound.type, b), LAMBDA valB :
    IF a = VNull /\ b # VNull THEN (IF asc THEN -1 ELSE 1)
    ELSE IF a # VNull /\ b = VNull THEN (IF asc THEN 1 ELSE -1)
    ELSE IF a = VNull /\ b = VNull THEN 0
    ELSE IF IsNaN(valA) /\ ~IsNaN(valB) THEN (IF asc THEN -1 ELSE 1)
    ELSE IF ~IsNaN(valA) /\ IsNaN(valB) THEN (IF asc THEN 1 ELSE -1)
    ELSE IF IsNaN(valA) /\ IsNaN(valB) THEN 0
    ELSE IF SortValueLess(valA, valB) THEN (IF asc THEN -1 ELSE 1)
    ELSE IF SortValueLess(valB, valA) THEN (IF asc THEN 1 ELSE -1)
    ELSE 0)))))

\* Array.prototype.sort with that comparator: a stable sort, here by
\* insertion of each row behind the rows that do not come after it
RECURSIVE sortRows(_, _, _)
sortRows(rows, col, dir) ==
  IF rows = <<>> THEN <<>>
  ELSE Let(rows[Len(rows)], LAMBDA last :
       Let(sortRows(SubSeq(rows, 1, Len(rows) - 1), col, dir), LAMBDA sorted :
       Let({i \in 1..Len(sorted) : compareRows(last, sorted[i], col, dir) < 0}, LAMBDA before :
       Let(IF before = {} THEN Len(sorted) + 1
           ELSE CHOOSE i \in before : \A j \in before : i <= j, LAMBDA at :
         SubSeq(sorted, 1, at - 1) \o <<last>> \o SubSeq(sorted, at, Len(sorted))))))

\* \d+
IsDigits(text) == text # "" /\ DigitPrefix(text) = text

\* The captures of handleSelectData's pattern on the command fullCommand,
\* whose clauses are given as written (limit is the text behind LIMIT).
\* The LIMIT group takes digits only.  With any other text behind LIMIT the
\* end of the pattern is reached only by the WHERE group running to the end
\* of the command, over ORDER BY and LIMIT, where parseWhereClause then finds
\* the first `column = value` as before; without a WHERE clause the command
\* does not match (no columns captured).
SelectMatch(fullCommand) ==
  IF ~Truthy(fullCommand.limit) \/ IsDigits(fullCommand.limit) THEN fullCommand
  ELSE IF fullCommand.where.present
    THEN [fullCommand EXCEPT !.orderBy = Undefined, !.direction = Undefined, !.limit = Undefined]
  ELSE [fullCommand EXCEPT !.columns = <<>>]

handleSelectData(fullCommand, currentDbName, dbs) ==
  Let(SelectMatch(fullCommand), LAMBDA s :
  LET tableName == s.name
      failed(msg) == [Result(dbs) EXCEPT !.output = Str(msg)]
  IN IF ~Truthy(currentDbName) \/ Lookup(dbs, currentDbName) = "none"
       THEN failed("Error: No database selected or database does not exist. Use 'USE <database_name>;'.")
     ELSE IF ~isValidIdentifier(tableName) \/ s.columns = <<>>
       THEN failed("Error: Invalid SELECT syntax. Expected: SELECT columns FROM table_name [WHERE condition] [ORDER BY column [ASC|DESC]] [LIMIT number];")
     ELSE IF Lookup(dbs, currentDbName) = "inherited"
       THEN Threw(dbs)
     ELSE IF TableKind(Get(dbs, currentDbName).tables, tableName) = "none"
       THEN failed("Error: Table '" \o tableName \o "' does not exist in database '" \o currentDbName \o "'.")
     ELSE IF TableKind(Get(dbs, currentDbName).tables, tableName) = "function"
       \* table.parsedColumns and table.data are undefined
       THEN IF s.where.present /\ ~s.where.matched
              THEN failed(parseWhereClause(s.where, ObjectFunction).error)
              ELSE Threw(dbs)
     ELSE
       Let(Get(Get(dbs, currentDbName).tables, tableName), LAMBDA table :
       Let(parseWhereClause(s.where, table), LAMBDA f :
         IF f.error # "" THEN failed(f.error)
         ELSE
       Let(SelectSeq(table.data, LAMBDA row : filterFn(f, row)), LAMBDA filtered :
       Let(IF Truthy(s.orderBy) THEN FindColumn(table.parsedColumns, s.orderBy) ELSE 0, LAMBDA o :
         IF Truthy(s.orderBy) /\ o = 0
           THEN failed("Error: Column '" \o s.orderBy \o "' not found in table '" \o tableName
                       \o "' for ORDER BY clause.")
         ELSE
       Let(IF Truthy(s.direction) /\ toUpperCase(s.direction) = "DESC" THEN "DESC" ELSE "ASC",
           LAMBDA effectiveOrderByDirection :
       Let(IF Truthy(s.orderBy)
             THEN sortRows(filtered, table.parsedColumns[o], effectiveOrderByDirection)
             ELSE filtered, LAMBDA ordered :
       Let(parseInt(s.limit), LAMBDA limit :
       Let(IF Truthy(s.limit) /\ limit.t = "num" /\ limit.n > 0
             THEN SubSeq(ordered, 1, IF limit.n < Len(ordered) THEN limit.n ELSE Len(ordered))
           ELSE IF Truthy(s.limit) /\ limit.t = "num" /\ limit.n = 0 THEN <<>>
           ELSE ordered, LAMBDA processedData :
         IF processedData = <<>> THEN failed("Empty set")
         ELSE
       Let([i \in 1..Len(table.parsedColumns) |-> table.parsedColumns[i].name], LAMBDA columnNames :
       Let(IF s.columns = <<"*">> THEN columnNames ELSE s.columns, LAMBDA requestedColumns :
       Let(SelectSeq(requestedColumns, LAMBDA rc : FindColumn(table.parsedColumns, rc) # 0),
           LAMBDA found :
       Let([i \in 1..Len(found) |->
              table.parsedColumns[FindColumn(table.parsedColumns, found[i])].name], LAMBDA headers :
         IF headers = <<>> /\ s.columns # <<"*">>
           THEN failed("Error: None of the requested columns (" \o Join(s.columns, ", ")
                       \o ") found in table '" \o tableName \o "'. Available: "
                       \o Join(columnNames, ", "))
         ELSE
       Let([r \in 1..Len(processedData) |->
              [i \in 1..Len(headers) |->
                 Let(Cell(processedData[r], headers[i]), LAMBDA val :
                   IF val = VNull THEN "NULL" ELSE String(val))]], LAMBDA finalRows :
         [Result(dbs) EXCEPT !.output = Arr(formatTableOutput(headers, finalRows))]))))))))))))))

\* DELETE that keeps the rows of the JSON copy instead of the rows of the table
handleDeleteDataFromClone(s, currentDbName, dbs) ==
  LET tableName == s.name
      failed(msg) == [Result(dbs) EXCEPT !.output = Str(msg)]
  IN IF ~Truthy(currentDbName) \/ Lookup(dbs, currentDbName) = "none"
       THEN failed("Error: No database selected or database does not exist.")
     ELSE IF ~isValidIdentifier(tableName)
       THEN failed("Error: Invalid DELETE syntax. Expected: DELETE FROM table_name [WHERE condition];")
     ELSE IF Lookup(dbs, currentDbName) = "inherited"
       THEN Threw(dbs)
     ELSE IF TableKind(Get(dbs, currentDbName).tables, tableName) = "none"
       THEN failed("Error: Table '" \o tableName \o "' does not exist in database '" \o currentDbName \o "'.")
     ELSE IF TableKind(Get(dbs, currentDbName).tables, tableName) = "function"
       THEN IF s.where.present /\ ~s.where.matched
              THEN failed(parseWhereClause(s.where, ObjectFunction).error)
              ELSE Threw(dbs)
     ELSE
       Let(Get(Get(dbs, currentDbName).tables, tableName), LAMBDA table :
       Let(parseWhereClause(s.where, table), LAMBDA f :
         IF f.error # "" THEN failed(f.error)
         ELSE
       Let(JsonClone(dbs), LAMBDA cloned :
       Let(SelectSeq(Get(Get(cloned, currentDbName).tables, tableName).data,
                     LAMBDA row : ~filterFn(f, row)), LAMBDA newData :
       Let(Len(table.data) - Len(newData), LAMBDA deletedCount :
         [Result(dbs) EXCEPT
            !.hasNewDatabases = TRUE,
            !.newDatabases =
               WithTable(cloned, currentDbName, tableName,
                         [Get(Get(cloned, currentDbName).tables, tableName)
                            EXCEPT !.data = newData]),
            !.output = Str(ToString(deletedCount) \o " row(s) deleted from '" \o tableName \o "'.")])))))

handleDeleteData(s, currentDbName, dbs) ==
  LET tableName == s.name
      failed(msg) == [Result(dbs) EXCEPT !.output = Str(msg)]
  IN IF ~Truthy(currentDbName) \/ Lookup(dbs, currentDbName) = "none"
       THEN failed("Error: No database selected or database does not exist.")
     ELSE IF ~isValidIdentifier(tableName)
       THEN failed("Error: Invalid DELETE syntax. Expected: DELETE FROM table_name [WHERE condition];")
     ELSE IF Lookup(dbs, currentDbName) = "inherited"
       THEN Threw(dbs)
     ELSE IF TableKind(Get(dbs, currentDbName).tables, tableName) = "none"
       THEN failed("Error: Table '" \o tableName \o "' does not exist in database '" \o currentDbName \o "'.")
     ELSE IF TableKind(Get(dbs, currentDbName).tables, tableName) = "function"
       THEN IF s.where.present /\ ~s.where.matched
              THEN failed(parseWhereClause(s.where, ObjectFunction).error)
              ELSE Threw(dbs)
     ELSE
       Let(Get(Get(dbs, currentDbName).tables, tableName), LAMBDA table :
       Let(parseWhereClause(s.where, table), LAMBDA f :
         IF f.error # "" THEN failed(f.error)
         ELSE
       Let(SelectSeq(table.data, LAMBDA row : ~filterFn(f, row)), LAMBDA newData :
       Let(Len(table.data) - Len(newData), LAMBDA deletedCount :
       Let(JsonClone(dbs), LAMBDA cloned :
         [Result(dbs) EXCEPT
            !.hasNewDatabases = TRUE,
            !.newDatabases =
               WithTable(cloned, currentDbName, tableName,
                         [Get(Get(cloned, currentDbName).tables, tableName)
                            EXCEPT !.data = newData]),
            !.output = Str(ToString(deletedCount) \o " row(s) deleted from '" \o tableName \o "'.")])))))

\* the SET coercion that stores 0 for a text that is no number
UpdateCoercedLenient(type, valueStr) ==
  IF toUpperCase(valueStr) = "NULL" THEN VNull
  ELSE IF IsIntType(type)
    THEN (IF IsNaN(parseInt(valueStr)) THEN VNum(0) ELSE parseInt(valueStr))
  ELSE IF IsFloatType(type)
    THEN (IF IsNaN(parseFloat(valueStr)) THEN VNum(0) ELSE parseFloat(valueStr))
  ELSE VStr(valueStr)

\* the value of one SET assignment for a column of the given type: NaN
\* stands for the failed coercion
UpdateCoerced(type, valueStr) ==
  IF toUpperCase(valueStr) = "NULL" THEN VNull
  ELSE IF IsIntType(type) THEN parseInt(valueStr)
  ELSE IF IsFloatType(type) THEN parseFloat(valueStr)
  ELSE VStr(valueStr)

\* newRow after the first i assignments
RECURSIVE AssignAll(_, _, _)
AssignAll(row, setAssignments, i) ==
  IF i = 0 THEN row
  ELSE Put(AssignAll(row, setAssignments, i - 1),
           setAssignments[i].column, setAssignments[i].value)

handleUpdateData(s, currentDbName, dbs) ==
  LET tableName == s.name
      failed(msg) == [Result(dbs) EXCEPT !.output = Str(msg)]
  IN IF ~Truthy(currentDbName) \/ Lookup(dbs, currentDbName) = "none"
       THEN failed("Error: No database selected or database does not exist.")
     ELSE IF ~isValidIdentifier(tableName) \/ s.set = <<>>
       THEN failed("Error: Invalid UPDATE syntax. Expected: UPDATE table_name SET col1 = val1, ... [WHERE condition];")
     ELSE IF Lookup(dbs, currentDbName) = "inherited"
       THEN Threw(dbs)
     ELSE IF TableKind(Get(dbs, currentDbName).tables, tableName) = "none"
       THEN failed("Error: Table '" \o tableName \o "' does not exist in database '" \o currentDbName \o "'.")
     ELSE IF ~s.set[1].matched
       THEN failed("Error: Invalid SET assignment. Expected format: column = value.")
     ELSE IF TableKind(Get(dbs, currentDbName).tables, tableName) = "function"
       \* table.parsedColumns is undefined
       THEN Threw(dbs)
     ELSE
       Let(Get(Get(dbs, currentDbName).tables, tableName), LAMBDA table :
       \* colIndex[i]: the column of the i-th assignment, 0 when there is none
       Let([i \in 1..Len(s.set) |-> FindColumn(table.parsedColumns, s.set[i].column)],
           LAMBDA colIndex :
       \* the assignments the loop rejects
       Let({i \in 1..Len(s.set) :
              \/ ~s.set[i].matched
              \/ colIndex[i] = 0
              \/ IsNaN(UpdateCoerced(table.parsedColumns[colIndex[i]].type, s.set[i].value.text))},
           LAMBDA bad :
         IF bad # {}
           THEN Let(CHOOSE k \in bad : \A j \in bad : k <= j, LAMBDA i :
                  IF ~s.set[i].matched
                    THEN failed("Error: Invalid SET assignment. Expected format: column = value.")
                  ELSE IF colIndex[i] = 0
                    THEN failed("Error: Column '" \o s.set[i].column \o "' not found in table '"
                                \o tableName \o "' for SET clause.")
                  ELSE failed("Error: Invalid "
                              \o (IF IsIntType(table.parsedColumns[colIndex[i]].type)
                                    THEN "integer" ELSE "float")
                              \o " value '" \o s.set[i].value.text \o "' for column '"
                              \o s.set[i].column \o "'."))
         ELSE
       Let([i \in 1..Len(s.set) |->
              [column |-> table.parsedColumns[colIndex[i]].name,
               value |-> UpdateCoerced(table.parsedColumns[colIndex[i]].type, s.set[i].value.text)]],
           LAMBDA setAssignments :
       Let(parseWhereClause(s.where, table), LAMBDA f :
         IF f.error # "" THEN failed(f.error)
         ELSE
       Let([r \in 1..Len(table.data) |->
              IF filterFn(f, table.data[r])
                THEN AssignAll(table.data[r], setAssignments, Len(setAssignments))
                ELSE table.data[r]], LAMBDA newData :
       Let(Len(SelectSeq(table.data, LAMBDA row : filterFn(f, row))), LAMBDA updatedCount :
       Let(JsonClone(dbs), LAMBDA cloned :
         [Result(dbs) EXCEPT
            !.hasNewDatabases = TRUE,
            !.newDatabases =
               WithTable(cloned, currentDbName, tableName,
                         [Get(Get(cloned, currentDbName).tables, tableName)
                            EXCEPT !.data = newData]),
            !.output = Str(ToString(updatedCount) \o " row(s) updated in '" \o tableName \o "'.")]))))))))

\* constraintKeywords.some(keyword => trimmedDef.toUpperCase().startsWith(keyword))
isTableConstraint(trimmedDef) ==
  \E keyword \in {"PRIMARY KEY", "FOREIGN KEY", "UNIQUE", "CHECK", "CONSTRAINT"} :
    StartsWith(toUpperCase(trimmedDef), keyword)

handleAlterTableAddColumn(s, currentDbName, dbs) ==
  LET tableName == s.name
      columnName == s.column
      columnTypeDefinition == s.type
      failed(msg) == [Result(dbs) EXCEPT !.output = Str(msg)]
  IN IF ~Truthy(currentDbName) \/ Lookup(dbs, currentDbName) = "none"
       THEN failed("Error: No database selected or database does not exist.")
     ELSE IF columnName = ""
       THEN failed("Error: Invalid ALTER TABLE syntax. Expected: ALTER TABLE <table_name> ADD COLUMN <col_name> <col_type_definition>;")
     ELSE IF ~isValidIdentifier(tableName)
       THEN failed("Error: Invalid table name '" \o tableName \o "' in ALTER TABLE command.")
     ELSE IF ~isValidIdentifier(columnName)
       THEN failed("Error: Invalid new column name '" \o columnName \o "'.")
     ELSE IF columnTypeDefinition = ""
       THEN failed("Error: Missing column type definition for new column '" \o columnName \o "'.")
     ELSE IF Lookup(dbs, currentDbName) = "inherited"
       THEN Threw(dbs)
     ELSE IF TableKind(Get(dbs, currentDbName).tables, tableName) = "none"
       THEN failed("Error: Table '" \o tableName \o "' does not exist in database '" \o currentDbName \o "'.")
     ELSE IF TableKind(Get(dbs, currentDbName).tables, tableName) = "function"
       \* table.parsedColumns is undefined
       THEN Threw(dbs)
     ELSE
       Let(Get(Get(dbs, currentDbName).tables, tableName), LAMBDA table :
         IF FindColumn(table.parsedColumns, columnName) # 0
           THEN failed("Error: Column '" \o columnName \o "' already exists in table '" \o tableName \o "'.")
         ELSE
       Let(columnName \o " " \o columnTypeDefinition, LAMBDA text :
       Let(parseColumnDefinitions(<<[kind |-> IF isTableConstraint(text) THEN "constraint" ELSE "col",
                                     name |-> columnName, type |-> columnTypeDefinition]>>),
           LAMBDA newColumnDefParts :
         IF Len(newColumnDefParts) = 0
           THEN failed("Error: Could not parse new column definition: '" \o text
                       \o "'. Ensure it is in 'name TYPE' format.")
         ELSE
       Let(newColumnDefParts[1], LAMBDA newColumnDef :
       Let(JsonClone(dbs), LAMBDA cloned :
       Let(Get(Get(cloned, currentDbName).tables, tableName), LAMBDA tableToUpdate :
         [Result(dbs) EXCEPT
            !.hasNewDatabases = TRUE,
            !.newDatabases =
               WithTable(cloned, currentDbName, tableName,
                 TableSchema(
                   IF Truthy(tableToUpdate.columnsDefinition)
                     THEN tableToUpdate.columnsDefinition \o ", " \o newColumnDef.name
                            \o " " \o newColumnDef.type
                     ELSE newColumnDef.name \o " " \o newColumnDef.type,
                   Append(tableToUpdate.parsedColumns, newColumnDef),
                   [r \in 1..Len(tableToUpdate.data) |->
                      Put(tableToUpdate.data[r], newColumnDef.name, VNull)])),
            !.output = Str("Column '" \o columnName \o "' added to table '" \o tableName \o "'.")]))))))

handleRenameTable(oldTableName, newTableName, currentDbName, dbs) ==
  LET failed(msg) == [Result(dbs) EXCEPT !.output = Str(msg)]
  IN IF ~Truthy(currentDbName) \/ Lookup(dbs, currentDbName) = "none"
       THEN failed("Error: No database selected or database does not exist.")
     ELSE IF Lookup(dbs, currentDbName) = "inherited"
       \* currentDbSchema.tables is undefined
       THEN Threw(dbs)
     ELSE IF TableKind(Get(dbs, currentDbName).tables, oldTableName) = "none"
       THEN failed("Error: Table '" \o oldTableName \o "' does not exist in database '" \o currentDbName \o "'.")
     ELSE IF TableKind(Get(dbs, currentDbName).tables, newTableName) # "none"
       THEN failed("Error: Table '" \o newTableName \o "' already exists in database '" \o currentDbName \o "'.")
     ELSE IF ~isValidIdentifier(newTableName)
       THEN failed("Error: Invalid new table name '" \o newTableName
                   \o "'. Names must start with a letter or underscore, followed by letters, numbers, or underscores.")
     ELSE
       LET cloned == JsonClone(dbs)
           db == Get(cloned, currentDbName)
           \* newDatabases[currentDbName].tables[oldTableName], read from the clone
           tableToRename ==
             CASE TableKind(db.tables, oldTableName) = "table" -> Get(db.tables, oldTableName)
               [] TableKind(db.tables, oldTableName) = "function" -> ObjectFunction
               [] OTHER -> UndefinedProperty
       IN [Result(dbs) EXCEPT
             !.hasNewDatabases = TRUE,
             !.newDatabases =
                Put(cloned, currentDbName,
                    DatabaseSchema(Put(Del(db.tables, oldTableName), newTableName, tableToRename),
                                   db.passwordHash)),
             !.output = Str("Table '" \o oldTableName \o "' renamed to '" \o newTableName
                            \o "' successfully.")]

-----------------------------------------------------------------------------
(* The handler call of each case of processCommand's switch *)

Execute(s, currentDbName, dbs) ==
  CASE s.op = "CREATE_DATABASE" -> handleCreateDatabase(s, dbs)
    [] s.op = "CREATE_TABLE" -> handleCreateTable(s, currentDbName, dbs)
    [] s.op = "SHOW_DATABASES" -> [Result(dbs) EXCEPT !.output = Arr(handleShowDatabases(dbs))]
    [] s.op = "SHOW_TABLES" -> handleShowTables(currentDbName, dbs)
    [] s.op = "USE" -> handleUseDatabase(s.name, dbs)
    [] s.op = "DROP_TABLE" -> handleDropTable(s.name, currentDbName, dbs)
    [] s.op = "DROP_DATABASE" -> handleDropDatabase(s.name, currentDbName, dbs)
    [] s.op = "DESCRIBE" -> handleDescribeTable(s.name, currentDbName, dbs)
    [] s.op = "INSERT" -> handleInsertData(s, currentDbName, dbs)
    [] s.op = "SELECT" -> handleSelectData(s, currentDbName, dbs)
    [] s.op = "DELETE" -> handleDeleteData(s, currentDbName, dbs)
    [] s.op = "UPDATE" -> handleUpdateData(s, currentDbName, dbs)
    [] s.op = "ALTER" -> handleAlterTableAddColumn(s, currentDbName, dbs)
    [] s.op = "RENAME" -> handleRenameTable(s.name, s.newName, currentDbName, dbs)
    [] OTHER -> [Result(dbs) EXCEPT
                   !.output = Str("Error: Unknown command in '" \o s.text \o "'. Type HELP; for a list of commands.")]

-----------------------------------------------------------------------------
(* In-place writes.  The handlers change objects in place (sort, delete,   *)
(* push, assignment to a property); such a write changes the caller's      *)
(* store when the object written is one of the `databases` argument.       *)

\* where an object comes from: the `databases` argument, or made by the call
Given == "given"
Fresh == "fresh"

\* table.data.filter(filterFn), table.data.map(...), { ...row },
\* [...table.data, newRow], { ...databases, ... } and
\* JSON.parse(JSON.stringify(databases)) make a new object from a given one
CopiedByReference(origin) == origin
Copied(origin) == Fresh

\* the object a handler writes in place:
\*   SELECT   processedData (= table.data.filter(filterFn)), by sort
\*   UPDATE   newRow (= { ...row }) and newDatabases (a JSON copy)
\*   DELETE, ALTER, RENAME, DROP TABLE, DROP DATABASE (both paths)
\*            newDatabases (a JSON copy)
\*   INSERT   newRow (= {}), CREATE TABLE, CREATE DATABASE: object literals
\*   the other handlers write nothing
WrittenObject(s) ==
  CASE s.op \in {"SELECT", "UPDATE", "DELETE", "ALTER", "RENAME", "DROP_TABLE", "DROP_DATABASE"}
         -> Copied(Given)
    [] OTHER -> Fresh

\* table.data of the argument after processedData.sort(...), were
\* processedData the array table.data itself
SortedInPlace(fullCommand, currentDbName, dbs) ==
  Let(SelectMatch(fullCommand), LAMBDA s :
    IF \/ ~Truthy(currentDbName) \/ Lookup(dbs, currentDbName) # "own"
       \/ ~isValidIdentifier(s.name) \/ s.columns = <<>> \/ ~Truthy(s.orderBy)
      THEN dbs
    ELSE IF TableKind(Get(dbs, currentDbName).tables, s.name) # "table" THEN dbs
    ELSE
      Let(Get(Get(dbs, currentDbName).tables, s.name), LAMBDA table :
      Let(FindColumn(table.parsedColumns, s.orderBy), LAMBDA o :
        IF parseWhereClause(s.where, table).error # "" \/ o = 0 THEN dbs
        ELSE WithTable(dbs, currentDbName, s.name,
               [table EXCEPT !.data =
                  sortRows(table.data, table.parsedColumns[o],
                           IF Truthy(s.direction) /\ toUpperCase(s.direction) = "DESC"
                             THEN "DESC" ELSE "ASC")]))))

\* the caller's `databases` argument after the handler of s returned result
ArgumentAfter(s, currentDbName, dbs, result) ==
  IF WrittenObject(s) # Given THEN dbs
  ELSE IF s.op = "SELECT" THEN SortedInPlace(s, currentDbName, dbs)
  ELSE IF result.hasNewDatabases THEN result.newDatabases
  ELSE dbs

-----------------------------------------------------------------------------
(* Inputs *)

\* the statements a session line is made of
SessionStmts ==
  { CreateDatabase("a"),
    CreateDatabaseWithPassword("b", "abcd"),
    Use("a"), Use("b"), Use("constructor"),
    DropDatabase("a"), DropDatabase("b"),
    CreateTable("t", <<Col("id", "INT")>>),
    Other("abcd"),
    Other("-- note") }

RECURSIVE SeqsUpTo(_, _)
SeqsUpTo(S, n) ==
  IF n = 0 THEN {<<>>}
  ELSE LET shorter == SeqsUpTo(S, n - 1)
       IN shorter \cup {Append(q, x) : q \in {r \in shorter : Len(r) = n - 1}, x \in S}

\* the input lines: 1..MaxLine statements separated by ';'
Lines == SeqsUpTo(SessionStmts, MaxLine) \ {<<>>}

-----------------------------------------------------------------------------
(* The server actions *)

\* saveDatabasesAction: the file holds JSON.stringify(databases)
saveDatabasesAction(dbs) == JsonClone(dbs)

\* loadDatabasesAction: JSON.parse of the content of the file; {} when the
\* file is missing or empty.  The file is held as the value its text
\* denotes, {} before the first save.
loadDatabasesAction(file) == IF file = EmptyObj THEN EmptyObj ELSE file

-----------------------------------------------------------------------------
(* The session: SqlCliComponent *)

SessionInit ==
  /\ databases = EmptyObj
  /\ currentDatabase = Null
  /\ awaitingPasswordForDb = Null
  /\ awaitingPasswordForDropDb = Null
  /\ fileStore = EmptyObj
  /\ pc = "idle"
  /\ rest = <<>>
  /\ tempDatabases = EmptyObj
  /\ clDatabases = EmptyObj
  /\ clCurrentDatabase = Null
  /\ dbToAuth = Null
  /\ dbToDrop = Null
  /\ threw = FALSE

EngineIdle ==
  /\ eIn = EmptyObj
  /\ eStmt = Stmt("NONE", "")
  /\ eCur = Null
  /\ eRes = Result(EmptyObj)

\* the browsers of SpecHost
Browsers == {1, 2}

\* a SqlCliComponent as constructed (the useState initial values);
\* running: the processCommand invocations that wait at an await
Mounted ==
  [databases |-> EmptyObj, currentDatabase |-> Null,
   isLoadingAssistant |-> FALSE, isSavingData |-> FALSE, isLoadingInitialData |-> TRUE,
   running |-> <<>>]

HostIdle == sessions = [b \in Browsers |-> Mounted]

Init == SessionInit /\ EngineIdle /\ HostIdle

\* handleSubmit, and processCommand up to its first branch: the
\* processCommand of the current render runs on the line, closed over that
\* render's databases and currentDatabase
Accept(ln) ==
  /\ pc = "idle"
  /\ rest' = ln
  /\ clDatabases' = databases
  /\ clCurrentDatabase' = currentDatabase
  /\ UNCHANGED <<engineVars, hostVars>>

\* processCommand, branch `if (awaitingPasswordForDropDb)`
SubmitDropPassword(ln) ==
  /\ Accept(ln)
  /\ Truthy(awaitingPasswordForDropDb)
  /\ LET password == LineText(ln)
         dropAuthResult == handlePasswordAttemptAndDropDatabase(
                             awaitingPasswordForDropDb, password, currentDatabase, databases)
     IN /\ dbToDrop' = awaitingPasswordForDropDb
        /\ awaitingPasswordForDropDb' = Null
        /\ IF dropAuthResult.hasNewDatabases
             THEN /\ databases' = dropAuthResult.newDatabases
                  /\ currentDatabase' = IF dropAuthResult.hasNewCurrentDb
                                          THEN dropAuthResult.newCurrentDb
                                          ELSE currentDatabase
                  /\ fileStore' = saveDatabasesAction(dropAuthResult.newDatabases)
             ELSE UNCHANGED <<databases, currentDatabase, fileStore>>
  /\ pc' = "done"
  /\ UNCHANGED <<awaitingPasswordForDb, tempDatabases, dbToAuth, threw>>

\* the branch with `setCurrentDatabase(authResult.newCurrentDb)` made unconditional
SubmitUsePasswordAlwaysSets(ln) ==
  /\ Accept(ln)
  /\ ~Truthy(awaitingPasswordForDropDb)
  /\ Truthy(awaitingPasswordForDb)
  /\ LET password == LineText(ln)
         authResult == handlePasswordAttempt(awaitingPasswordForDb, password, databases)
     IN /\ dbToAuth' = awaitingPasswordForDb
        /\ awaitingPasswordForDb' = Null
        /\ currentDatabase' = authResult.newCurrentDb
  /\ pc' = "done"
  /\ UNCHANGED <<databases, awaitingPasswordForDropDb, fileStore, tempDatabases, dbToDrop, threw>>

\* processCommand, branch `if (awaitingPasswordForDb)`
SubmitUsePassword(ln) ==
  /\ Accept(ln)
  /\ ~Truthy(awaitingPasswordForDropDb)
  /\ Truthy(awaitingPasswordForDb)
  /\ LET password == LineText(ln)
         authResult == handlePasswordAttempt(awaitingPasswordForDb, password, databases)
     IN /\ dbToAuth' = awaitingPasswordForDb
        /\ awaitingPasswordForDb' = Null
        /\ currentDatabase' = IF Truthy(authResult.newCurrentDb)
                                THEN authResult.newCurrentDb
                                ELSE currentDatabase
  /\ pc' = "done"
  /\ UNCHANGED <<databases, awaitingPasswordForDropDb, fileStore, tempDatabases, dbToDrop, threw>>

\* the comment branch placed in front of the two password branches
SubmitCommentFirst(ln) ==
  /\ Accept(ln)
  /\ StartsWith(LineText(ln), "--")
  /\ pc' = "done"
  /\ UNCHANGED <<databases, currentDatabase, awaitingPasswordForDb, awaitingPasswordForDropDb,
                 fileStore, tempDatabases, dbToAuth, dbToDrop, threw>>

\* processCommand, branch `if (trimmedFullInputLine.startsWith('--'))`
SubmitComment(ln) ==
  /\ Accept(ln)
  /\ ~Truthy(awaitingPasswordForDropDb)
  /\ ~Truthy(awaitingPasswordForDb)
  /\ StartsWith(LineText(ln), "--")
  /\ pc' = "done"
  /\ UNCHANGED <<databases, currentDatabase, awaitingPasswordForDb, awaitingPasswordForDropDb,
                 fileStore, tempDatabases, dbToAuth, dbToDrop, threw>>

\* processCommand: the line is split on ';' and the statement loop is entered
SubmitStatements(ln) ==
  /\ Accept(ln)
  /\ ~Truthy(awaitingPasswordForDropDb)
  /\ ~Truthy(awaitingPasswordForDb)
  /\ ~StartsWith(LineText(ln), "--")
  /\ tempDatabases' = databases
  /\ pc' = "run"
  /\ UNCHANGED <<databases, currentDatabase, awaitingPasswordForDb, awaitingPasswordForDropDb,
                 fileStore, dbToAuth, dbToDrop, threw>>

\* needsSave of a case that takes result.newDatabases:
\* `if (result.newDatabases) { ...; needsSave = !result.output.startsWith('Error:'); }`
needsSave(result) == result.hasNewDatabases /\ ~IsErrorOutput(result.output)

\* The case of processCommand's switch for the command s, after its handler
\* returned result on the local tempDatabases.  The record says what the
\* iteration does: the new tempDatabases, needsSave, the setCurrentDatabase /
\* setAwaitingPasswordFor... calls it makes, and whether it returns from
\* processCommand or dies in a TypeError.
SwitchCase(s, temp, result) ==
  LET isError == IsErrorOutput(result.output)
      none == [tempDatabases |-> temp, needsSave |-> FALSE,
               setsCurrent |-> FALSE, current |-> Null,
               awaitUse |-> Null, awaitDrop |-> Null,
               returns |-> FALSE, threw |-> FALSE]
      mutation == [none EXCEPT
                     !.tempDatabases = IF result.hasNewDatabases THEN result.newDatabases ELSE temp,
                     !.needsSave = needsSave(result)]
  IN IF result.threw THEN [none EXCEPT !.threw = TRUE]
     ELSE CASE s.op \in {"CREATE_DATABASE", "CREATE_TABLE", "DROP_TABLE",
                         "INSERT", "UPDATE", "DELETE", "ALTER", "RENAME"} -> mutation
            [] s.op = "USE" ->
                 IF result.requiresPasswordInput /\ Truthy(result.dbToAuth)
                   THEN [none EXCEPT !.awaitUse = result.dbToAuth, !.returns = TRUE]
                 ELSE IF result.hasNewCurrentDb /\ ~isError
                   THEN [none EXCEPT !.setsCurrent = TRUE, !.current = result.newCurrentDb]
                 ELSE none
            [] s.op = "DROP_DATABASE" ->
                 IF result.requiresPasswordInputForDrop /\ Truthy(result.dbToAuthForDrop)
                   THEN [none EXCEPT !.awaitDrop = result.dbToAuthForDrop, !.returns = TRUE]
                 ELSE IF result.hasNewDatabases
                   THEN [mutation EXCEPT !.setsCurrent = result.hasNewCurrentDb,
                                         !.current = result.newCurrentDb]
                 ELSE none
            [] OTHER -> none

\* One iteration of processCommand's statement loop for the command s: the
\* handler call with the closed-over current database and the local
\* tempDatabases, then the case of the switch
Iteration(s, currentDbName, temp) == SwitchCase(s, temp, Execute(s, currentDbName, temp))

\* the loop pass without the `return` after a password prompt
ExecStatementNoReturn ==
  /\ pc = "run"
  /\ rest # <<>>
  /\ \E it \in {Iteration(Head(rest), clCurrentDatabase, tempDatabases)} :
        /\ tempDatabases' = it.tempDatabases
        /\ threw' = it.threw
        /\ currentDatabase' = IF it.setsCurrent THEN it.current ELSE currentDatabase
        /\ awaitingPasswordForDb' = IF Truthy(it.awaitUse) THEN it.awaitUse ELSE awaitingPasswordForDb
        /\ awaitingPasswordForDropDb' =
             IF Truthy(it.awaitDrop) THEN it.awaitDrop ELSE awaitingPasswordForDropDb
        /\ IF it.needsSave
             THEN /\ databases' = it.tempDatabases
                  /\ fileStore' = saveDatabasesAction(it.tempDatabases)
             ELSE UNCHANGED <<databases, fileStore>>
        /\ IF it.threw
             THEN pc' = "done" /\ rest' = rest
             ELSE pc' = "run" /\ rest' = Tail(rest)
  /\ UNCHANGED <<clDatabases, clCurrentDatabase, dbToAuth, dbToDrop>>

\* the loop pass with every handler called on the store of the render
\* (databases as closed over) instead of the accumulating tempDatabases
ExecStatementOnClosure ==
  /\ pc = "run"
  /\ rest # <<>>
  /\ \E it \in {Iteration(Head(rest), clCurrentDatabase, clDatabases)} :
        /\ tempDatabases' = it.tempDatabases
        /\ threw' = it.threw
        /\ currentDatabase' = IF it.setsCurrent THEN it.current ELSE currentDatabase
        /\ awaitingPasswordForDb' = IF Truthy(it.awaitUse) THEN it.awaitUse ELSE awaitingPasswordForDb
        /\ awaitingPasswordForDropDb' =
             IF Truthy(it.awaitDrop) THEN it.awaitDrop ELSE awaitingPasswordForDropDb
        /\ IF it.needsSave
             THEN /\ databases' = it.tempDatabases
                  /\ fileStore' = saveDatabasesAction(it.tempDatabases)
             ELSE UNCHANGED <<databases, fileStore>>
        /\ IF it.returns \/ it.threw
             THEN pc' = "done" /\ rest' = rest
             ELSE pc' = "run" /\ rest' = Tail(rest)
  /\ UNCHANGED <<clDatabases, clCurrentDatabase, dbToAuth, dbToDrop>>

\* processCommand: one pass of `for (const commandStr of individualCommandStrings)`
ExecStatement ==
  /\ pc = "run"
  /\ rest # <<>>
  /\ \E it \in {Iteration(Head(rest), clCurrentDatabase, tempDatabases)} :
        /\ tempDatabases' = it.tempDatabases
        /\ threw' = it.threw
        /\ currentDatabase' = IF it.setsCurrent THEN it.current ELSE currentDatabase
        /\ awaitingPasswordForDb' = IF Truthy(it.awaitUse) THEN it.awaitUse ELSE awaitingPasswordForDb
        /\ awaitingPasswordForDropDb' =
             IF Truthy(it.awaitDrop) THEN it.awaitDrop ELSE awaitingPasswordForDropDb
        /\ IF it.needsSave
             THEN /\ databases' = it.tempDatabases
                  /\ fileStore' = saveDatabasesAction(it.tempDatabases)
             ELSE UNCHANGED <<databases, fileStore>>
        /\ IF it.returns \/ it.threw
             THEN pc' = "done" /\ rest' = rest
             ELSE pc' = "run" /\ rest' = Tail(rest)
  /\ UNCHANGED <<clDatabases, clCurrentDatabase, dbToAuth, dbToDrop>>

\* processCommand after the loop: the final setDatabases
FinishLine ==
  /\ pc = "run"
  /\ rest = <<>>
  /\ databases' = IF clDatabases # tempDatabases THEN tempDatabases ELSE databases
  /\ pc' = "done"
  /\ UNCHANGED <<currentDatabase, awaitingPasswordForDb, awaitingPasswordForDropDb, fileStore,
                 rest, tempDatabases, clDatabases, clCurrentDatabase, dbToAuth, dbToDrop, threw>>

\* processCommand has returned (or its promise was rejected): its locals are gone
Return ==
  /\ pc = "done"
  /\ pc' = "idle"
  /\ rest' = <<>>
  /\ tempDatabases' = EmptyObj
  /\ clDatabases' = EmptyObj
  /\ clCurrentDatabase' = Null
  /\ dbToAuth' = Null
  /\ dbToDrop' = Null
  /\ threw' = FALSE
  /\ UNCHANGED <<databases, currentDatabase, awaitingPasswordForDb, awaitingPasswordForDropDb,
                 fileStore>>

Next ==
  \/ pc = "idle" /\ \E ln \in Lines : SubmitDropPassword(ln)
  \/ pc = "idle" /\ \E ln \in Lines : SubmitUsePassword(ln)
  \/ pc = "idle" /\ \E ln \in Lines : SubmitComment(ln)
  \/ pc = "idle" /\ \E ln \in Lines : SubmitStatements(ln)
  \/ ExecStatement /\ UNCHANGED <<engineVars, hostVars>>
  \/ FinishLine /\ UNCHANGED <<engineVars, hostVars>>
  \/ Return /\ UNCHANGED <<engineVars, hostVars>>

Spec == Init /\ [][Next]_vars

-----------------------------------------------------------------------------
(* The engine: the handlers as functions of (statement, current database,  *)
(* store), applied to the store the previous call returned.                *)

EngineNames == {"a", "b", "constructor"}
\* password literals of 0, 1, 2, 3 and 4 characters
EnginePasswords == {"", "x", "ab", "abc", "abcd", "wxyz"}
EngineStmts ==
  {CreateDatabase(n) : n \in EngineNames \cup {"1x"}}
    \cup {CreateDatabaseWithPassword(n, p) : n \in EngineNames, p \in EnginePasswords}
    \cup {Use(n) : n \in EngineNames}
    \cup {DropDatabase(n) : n \in EngineNames}
    \cup {CreateTable("t", <<Col("id", "INT")>>), DropTable("t"), ShowDatabases, ShowTables}
    \* a column list with the same name twice, in two cases
    \cup {CreateTable("t", <<Col("id", "INT"), Col("ID", "TEXT")>>)}
\* the current-database argument: none, a name of the store or not of the store
EngineCurrent == {Null} \cup EngineNames

\* a handler is called on the store the caller holds
EngineCall(s, c) ==
  /\ eStmt.op = "NONE"
  /\ eStmt' = s
  /\ eCur' = c
  /\ \E result \in {Execute(s, c, eIn)} :
       /\ eRes' = result
       /\ eIn' = ArgumentAfter(s, c, eIn, result)
  /\ UNCHANGED <<sessionVars, hostVars>>

\* the caller takes the returned store as its store (tempDatabases = result.newDatabases)
EngineAdopt ==
  /\ eStmt.op # "NONE"
  /\ eIn' = IF eRes.hasNewDatabases THEN eRes.newDatabases ELSE eIn
  /\ eStmt' = Stmt("NONE", "")
  /\ eCur' = Null
  /\ eRes' = Result(EmptyObj)
  /\ UNCHANGED <<sessionVars, hostVars>>

EngineNext ==
  \/ \E s \in EngineStmts, c \in EngineCurrent : EngineCall(s, c)
  \/ EngineAdopt

SpecEngine == Init /\ [][EngineNext]_vars

-----------------------------------------------------------------------------
(* The row handlers as functions: statements on the tables of one database *)

\* the store after CREATE DATABASE a; USE a; CREATE TABLE t (id INT, name
\* TEXT, score FLOAT); CREATE TABLE u (x FLOAT)
TableStore ==
  LET created == handleCreateDatabase(CreateDatabase("a"), EmptyObj).newDatabases
      withT == handleCreateTable(
                 CreateTable("t", <<Col("id", "INT"), Col("name", "TEXT"), Col("score", "FLOAT")>>),
                 "a", created).newDatabases
  IN handleCreateTable(CreateTable("u", <<Col("x", "FLOAT")>>), "a", withT).newDatabases

TableInserts ==
  { Insert("t", <<>>, <<Lit("1"), Quoted("Ann"), Lit("5")>>),
    Insert("t", <<>>, <<Lit("2"), Quoted("bob"), Lit("Infinity")>>),
    Insert("t", <<>>, <<Lit("1000000000000000000000"), Quoted("ANN"), Lit("NULL")>>),
    Insert("t", <<"NAME", "id">>, <<Quoted("NULL"), Lit("3")>>),
    \* refused: a value that is no integer, an unknown column, too few
    \* values, an unknown table, a table name found on the prototype
    Insert("t", <<>>, <<Lit("x"), Quoted("Ann"), Lit("1")>>),
    Insert("t", <<"nope">>, <<Lit("1")>>),
    Insert("t", <<>>, <<Lit("1")>>),
    Insert("w", <<>>, <<Lit("1")>>),
    Insert("constructor", <<>>, <<Lit("1")>>) }

TableWheres ==
  { NoWhere, Where("name", Quoted("ann")), Where("ID", Lit("1")), Where("score", Lit("NULL")),
    Where("name", Quoted("NULL")),
    Where("nope", Lit("1")), UnsupportedWhere }

TableSelects ==
  {Select(<<"*">>, "t", w, Undefined, Undefined, Undefined) : w \in TableWheres}
    \cup {Select(<<"*">>, "t", NoWhere, "id", d, l) : d \in {"ASC", "DESC"}, l \in {Undefined, "0", "1"}}
    \cup { Select(<<"id", "name">>, "t", Where("name", Quoted("ann")), "id", "DESC", "1"),
           Select(<<"*">>, "t", NoWhere, "name", Undefined, "1"),
           Select(<<"*">>, "t", NoWhere, "score", "desc", Undefined),
           Select(<<"*">>, "t", NoWhere, "score", Undefined, Undefined),
           Select(<<"*">>, "t", NoWhere, "name", "DESC", Undefined),
           Select(<<"*">>, "t", NoWhere, "nope", Undefined, Undefined) }
    \* a column list without a column of the table
    \cup {Select(<<"nope", "zip">>, "t", w, Undefined, Undefined, Undefined) :
            w \in {NoWhere, Where("name", Quoted("ann"))}}
    \* a LIMIT that is no number
    \cup {Select(<<"*">>, "t", w, o, Undefined, l) :
            w \in {NoWhere, Where("name", Quoted("ann"))}, o \in {Undefined, "score"},
            l \in {"-1", "all"}}

TableUpdates ==
  { Update("t", <<Where("score", Lit("9"))>>, Where("name", Quoted("ann"))),
    Update("t", <<Where("NAME", Quoted("Zed")), Where("score", Lit("7"))>>, Where("ID", Lit("1"))),
    Update("t", <<Where("score", Lit("9"))>>, NoWhere),
    \* refused: the second value is no number, an unknown column, a WHERE
    \* on an unknown column
    Update("t", <<Where("name", Quoted("Zed")), Where("score", Lit("oops"))>>, NoWhere),
    Update("t", <<Where("name", Quoted("Zed")), Where("nope", Lit("1"))>>, NoWhere),
    Update("t", <<Where("score", Lit("9"))>>, Where("nope", Lit("1"))) }

TableStmts ==
  TableInserts \cup TableSelects \cup TableUpdates
    \cup {Delete("t", w) : w \in TableWheres}
    \cup { Delete("w", NoWhere),
           AlterTableAddColumn("t", "age", "int"),
           AlterTableAddColumn("t", "ID", "INT"),
           AlterTableAddColumn("t", "checked", "INT"),
           AlterTableAddColumn("w", "age", "INT"),
           RenameTable("t", "v"), RenameTable("v", "t"), RenameTable("t", "u"),
           RenameTable("t", "1x"), RenameTable("w", "v"), RenameTable("constructor", "v"),
           Describe("t"), Describe("w"), ShowDatabases, ShowTables }

\* rows in all tables of the store
RECURSIVE SumOf(_)
SumOf(ns) == IF Len(ns) = 0 THEN 0 ELSE ns[1] + SumOf(Tail(ns))
RowCount(dbs) ==
  SumOf([i \in 1..Len(dbs) |->
           SumOf([j \in 1..Len(dbs[i].v.tables) |-> Len(dbs[i].v.tables[j].v.data)])])

TableInit ==
  /\ SessionInit
  /\ HostIdle
  /\ eIn = TableStore
  /\ eStmt = Stmt("NONE", "")
  /\ eCur = Null
  /\ eRes = Result(EmptyObj)

\* a handler is called with the statement s, the current database a and the store
TableCall(s) ==
  /\ s.op = "INSERT" => RowCount(eIn) < MaxRows
  /\ EngineCall(s, "a")

TableNext ==
  \/ \E s \in TableStmts : TableCall(s)
  \/ EngineAdopt

SpecTable == TableInit /\ [][TableNext]_vars

-----------------------------------------------------------------------------
(* The host: the browsers open on one server.  Every browser runs its own  *)
(* SqlCliComponent; the server actions of all of them read and write the   *)
(* one file at DATA_FILE_PATH.  Between two awaits processCommand runs     *)
(* without interruption (one JavaScript task), so a step runs it to its    *)
(* next await or to its end.                                               *)

\* ASSIST "question" (well-formed)
Assist == Stmt("ASSIST", "")
\* statements on the databases of the store; none asks for a password
HostStmts == {CreateDatabase("a"), CreateDatabase("b"), DropDatabase("a"), Assist}
HostLines == SeqsUpTo(HostStmts, MaxLine) \ {<<>>}
\* processCommand invocations in progress in one browser
MaxRunning == 2

\* handleSubmit without its first line
handleSubmitAlways(session) == TRUE
\* handleSubmit: if (isLoadingAssistant || isSavingData || isLoadingInitialData) return;
handleSubmit(session) ==
  ~(session.isLoadingAssistant \/ session.isSavingData \/ session.isLoadingInitialData)

\* saveDatabasesToServer without setIsSavingData(true)
saveDatabasesToServerUnflagged(session, inv) ==
  [session EXCEPT !.running = Append(@, [inv EXCEPT !.awaiting = "save",
                                                    !.updatedDatabases = inv.tempDatabases])]
\* saveDatabasesToServer(tempDatabases) up to its await, called by the
\* invocation inv: setIsSavingData(true); await saveDatabasesAction(updatedDatabases)
saveDatabasesToServer(session, inv) ==
  [session EXCEPT
     !.isSavingData = TRUE,
     !.running = Append(@, [inv EXCEPT !.awaiting = "save",
                                       !.updatedDatabases = inv.tempDatabases])]

\* processCommand(line) as called by the render that shows session: its
\* locals, and the state it closed over
Invocation(line, session) ==
  [rest |-> line,
   tempDatabases |-> session.databases,
   clDatabases |-> session.databases,
   clCurrentDatabase |-> session.currentDatabase,
   clIsLoadingAssistant |-> session.isLoadingAssistant,
   clIsSavingData |-> session.isSavingData,
   commandStr |-> Stmt("NONE", ""),
   awaiting |-> "",
   updatedDatabases |-> EmptyObj]

\* processCommand from the statement loop on, for the invocation inv of the
\* component in state session, up to its next await (the invocation joins
\* session.running) or its end
RECURSIVE processCommand(_, _)
processCommand(session, inv) ==
  IF inv.rest = <<>>
    \* after the loop: the final setDatabases
    THEN [session EXCEPT !.databases = IF inv.clDatabases # inv.tempDatabases
                                         THEN inv.tempDatabases ELSE @]
  ELSE IF inv.clIsLoadingAssistant \/ inv.clIsSavingData
    \* continue
    THEN processCommand(session, [inv EXCEPT !.rest = Tail(@)])
  ELSE IF Head(inv.rest).op = "ASSIST"
    \* setIsLoadingAssistant(true); await getSqlCommand(...)
    THEN [session EXCEPT
            !.isLoadingAssistant = TRUE,
            !.running = Append(@, [inv EXCEPT !.rest = Tail(@), !.commandStr = Head(inv.rest),
                                               !.awaiting = "assistant"])]
  ELSE
    Let(Iteration(Head(inv.rest), inv.clCurrentDatabase, inv.tempDatabases), LAMBDA it :
    Let([session EXCEPT
           !.currentDatabase = IF it.setsCurrent THEN it.current ELSE @,
           !.databases = IF it.needsSave THEN it.tempDatabases ELSE @], LAMBDA updated :
    Let([inv EXCEPT !.rest = Tail(@), !.commandStr = Head(inv.rest),
                    !.tempDatabases = it.tempDatabases], LAMBDA next :
      IF it.returns \/ it.threw THEN updated
      ELSE IF it.needsSave
        \* setDatabases(tempDatabases); await saveDatabasesToServer(tempDatabases)
        THEN saveDatabasesToServer(updated, next)
      ELSE processCommand(updated, next))))

\* s without its i-th element
Without(s, i) == SubSeq(s, 1, i - 1) \o SubSeq(s, i + 1, Len(s))

sessionLocals == <<databases, currentDatabase, awaitingPasswordForDb, awaitingPasswordForDropDb,
                   pc, rest, tempDatabases, clDatabases, clCurrentDatabase,
                   dbToAuth, dbToDrop, threw>>

\* the effect on mount: loadDatabasesAction(), setDatabases, setIsLoadingInitialData(false)
fetchInitialData(b) ==
  /\ sessions[b].isLoadingInitialData
  /\ sessions' = [sessions EXCEPT ![b] = [@ EXCEPT !.databases = loadDatabasesAction(fileStore),
                                                   !.isLoadingInitialData = FALSE]]
  /\ UNCHANGED <<fileStore, sessionLocals, engineVars>>

\* the form is submitted with the line ln
Submit(b, ln) ==
  /\ handleSubmit(sessions[b])
  /\ Len(sessions[b].running) < MaxRunning
  /\ sessions' = [sessions EXCEPT ![b] = processCommand(@, Invocation(ln, @))]
  /\ UNCHANGED <<fileStore, sessionLocals, engineVars>>

\* saveDatabasesAction writes the file and returns; saveDatabasesToServer
\* sets isSavingData to false and processCommand goes on
SaveReturns(b, i) ==
  /\ i <= Len(sessions[b].running)
  /\ sessions[b].running[i].awaiting = "save"
  /\ fileStore' = saveDatabasesAction(sessions[b].running[i].updatedDatabases)
  /\ sessions' = [sessions EXCEPT ![b] =
                    processCommand([@ EXCEPT !.isSavingData = FALSE, !.running = Without(@, i)],
                                   [@.running[i] EXCEPT !.awaiting = ""])]
  /\ UNCHANGED <<sessionLocals, engineVars>>

\* saveDatabasesToServer without its `finally`: a failed save leaves isSavingData set
SaveFailsFlagLeft(b, i) ==
  /\ i <= Len(sessions[b].running)
  /\ sessions[b].running[i].awaiting = "save"
  /\ sessions' = [sessions EXCEPT ![b] =
                    processCommand([@ EXCEPT !.running = Without(@, i)],
                                   [@.running[i] EXCEPT !.awaiting = ""])]
  /\ UNCHANGED <<fileStore, sessionLocals, engineVars>>

\* saveDatabasesAction throws (the directory or the file could not be
\* written) and the file is as it was; the catch of saveDatabasesToServer
\* adds the error entry to the history (not part of the state here), its
\* finally sets isSavingData to false, and
\* processCommand goes on
SaveFails(b, i) ==
  /\ i <= Len(sessions[b].running)
  /\ sessions[b].running[i].awaiting = "save"
  /\ sessions' = [sessions EXCEPT ![b] =
                    processCommand([@ EXCEPT !.isSavingData = FALSE,
                                             !.running = Without(@, i)],
                                   [@.running[i] EXCEPT !.awaiting = ""])]
  /\ UNCHANGED <<fileStore, sessionLocals, engineVars>>

\* getSqlCommand throws; the catch adds the error entry to the history, the
\* finally sets isLoadingAssistant to false, and processCommand goes on
AssistantFails(b, i) ==
  /\ i <= Len(sessions[b].running)
  /\ sessions[b].running[i].awaiting = "assistant"
  /\ sessions' = [sessions EXCEPT ![b] =
                    processCommand([@ EXCEPT !.isLoadingAssistant = FALSE,
                                             !.running = Without(@, i)],
                                   [@.running[i] EXCEPT !.awaiting = ""])]
  /\ UNCHANGED <<fileStore, sessionLocals, engineVars>>

\* getSqlCommand returns; isLoadingAssistant is set to false and processCommand goes on
AssistantReturns(b, i) ==
  /\ i <= Len(sessions[b].running)
  /\ sessions[b].running[i].awaiting = "assistant"
  /\ sessions' = [sessions EXCEPT ![b] =
                    processCommand([@ EXCEPT !.isLoadingAssistant = FALSE, !.running = Without(@, i)],
                                   [@.running[i] EXCEPT !.awaiting = ""])]
  /\ UNCHANGED <<fileStore, sessionLocals, engineVars>>

HostNext ==
  \/ \E b \in Browsers : fetchInitialData(b)
  \/ \E b \in Browsers, ln \in HostLines : Submit(b, ln)
  \/ \E b \in Browsers, i \in 1..MaxRunning : SaveReturns(b, i)
  \/ \E b \in Browsers, i \in 1..MaxRunning : AssistantReturns(b, i)
  \/ \E b \in Browsers, i \in 1..MaxRunning : SaveFails(b, i)
  \/ \E b \in Browsers, i \in 1..MaxRunning : AssistantFails(b, i)

SpecHost == Init /\ [][HostNext]_vars

\* The host where every call that is awaited settles: the promise of
\* saveDatabasesAction and the one of getSqlCommand are eventually fulfilled
\* or rejected
Settles ==
  \A b \in Browsers :
    /\ WF_vars(\E i \in 1..MaxRunning : SaveReturns(b, i) \/ SaveFails(b, i))
    /\ WF_vars(\E i \in 1..MaxRunning : AssistantReturns(b, i) \/ AssistantFails(b, i))

SpecHostLive == SpecHost /\ Settles

-----------------------------------------------------------------------------
\* Properties of the session (Spec)

KeySet(o) == {Keys(o)[i] : i \in 1..Len(Keys(o))}

\* the step is a password line answering a USE of the database that is
\* current afterwards, and the line's hash equals that database's stored hash
IsMatchingUsePassword ==
  /\ pc = "idle"
  /\ ~Truthy(awaitingPasswordForDropDb)
  /\ Truthy(awaitingPasswordForDb)
  /\ awaitingPasswordForDb = currentDatabase'
  /\ OwnHas(databases, awaitingPasswordForDb)
  /\ verifyPassword(LineText(rest'), Get(databases, awaitingPasswordForDb).passwordHash)

\* the current database after the step is protected, and before the step it
\* was not already this protected current database
BecomesProtectedCurrent ==
  /\ IsProtected(databases', currentDatabase')
  /\ ~(/\ currentDatabase = currentDatabase'
       /\ IsProtected(databases, currentDatabase)
       /\ Get(databases, currentDatabase).passwordHash
            = Get(databases', currentDatabase').passwordHash)

\* C1: a password-protected database becomes the current database only by a
\* password line whose hash equals the stored hash, entered in response to a
\* USE of that database; a USE statement itself never makes a protected
\* database current.
C1_ProtectedOnlyByPassword ==
  [][BecomesProtectedCurrent => IsMatchingUsePassword]_vars

\* the step is a password line answering a USE, and the line's hash differs
\* from the stored hash of the database asked for
IsWrongUsePassword ==
  /\ pc = "idle"
  /\ pc' = "done"
  /\ ~Truthy(awaitingPasswordForDropDb)
  /\ Truthy(awaitingPasswordForDb)
  /\ ~(/\ IsProtected(databases, awaitingPasswordForDb)
       /\ verifyPassword(LineText(rest'), Get(databases, awaitingPasswordForDb).passwordHash))

\* the step is a USE statement that asks for the password of a protected database
IsUseAskingPassword ==
  /\ pc = "run"
  /\ awaitingPasswordForDb' # awaitingPasswordForDb

\* C2: a USE of a protected database followed by a wrong password leaves the
\* current database as it was before the USE and the store unchanged, in
\* every round of USE and failed attempt.
C2_WrongPasswordChangesNothing ==
  [][(IsUseAskingPassword \/ IsWrongUsePassword)
       => /\ currentDatabase' = currentDatabase
          /\ databases' = databases
          /\ fileStore' = fileStore]_vars

\* C2, reached case: a wrong password was entered for a protected database
\* while another database was selected, and that one is still selected
C2_WrongPasswordEntered ==
  /\ pc = "done"
  /\ Truthy(dbToAuth)
  /\ IsProtected(databases, dbToAuth)
  /\ ~verifyPassword(LineText(rest), Get(databases, dbToAuth).passwordHash)
  /\ Truthy(currentDatabase)
  /\ currentDatabase # dbToAuth
  /\ currentDatabase = clCurrentDatabase

\* a line is submitted while a USE or a DROP DATABASE waits for its password
IsPasswordLine ==
  /\ pc = "idle"
  /\ pc' # "idle"
  /\ Truthy(awaitingPasswordForDb) \/ Truthy(awaitingPasswordForDropDb)

\* the database whose password the pending state asks for
PendingDb ==
  IF Truthy(awaitingPasswordForDropDb) THEN awaitingPasswordForDropDb ELSE awaitingPasswordForDb

\* C3: while a USE or DROP DATABASE waits for a password, the next line is
\* taken whole as the password: the statement loop is not entered, the line
\* is neither split nor read as a comment, and its only possible effect is
\* the one of a password whose hash, taken over the whole line, matches; when
\* the line has been handled the pending state is cleared, and a line
\* submitted with no pending state is a comment or goes to the statement loop.
C3_PasswordLineConsumedWhole ==
  [][/\ IsPasswordLine
        => /\ pc' = "done"
           /\ rest' # <<>>
           /\ tempDatabases' = tempDatabases
           /\ awaitingPasswordForDb' = Null
           /\ awaitingPasswordForDropDb' = Null
           /\ threw' = FALSE
           /\ (databases' # databases \/ currentDatabase' # currentDatabase)
                => /\ IsProtected(databases, PendingDb)
                   /\ verifyPassword(LineText(rest'), Get(databases, PendingDb).passwordHash)
     /\ (pc = "idle" /\ pc' # "idle" /\ ~IsPasswordLine)
        => /\ dbToAuth' = Null
           /\ dbToDrop' = Null
           /\ IF StartsWith(LineText(rest'), "--") THEN pc' = "done" ELSE pc' = "run"]_vars

\* C3, reached case: a line that starts like a comment and holds two
\* statements was taken as the password of a pending USE
C3_StatementLineTakenAsPassword ==
  /\ pc = "done"
  /\ Truthy(dbToAuth)
  /\ Len(rest) > 1
  /\ StartsWith(LineText(rest), "--")
  /\ awaitingPasswordForDb = Null

\* C4: a statement that asks for a password ends the line: the statements
\* after it stay unexecuted and are dropped when processCommand returns, and
\* the store published so far is the one the earlier statements produced.
C4_PasswordPromptStopsLine ==
  [][/\ (pc = "run" /\ (awaitingPasswordForDb' # awaitingPasswordForDb
                          \/ awaitingPasswordForDropDb' # awaitingPasswordForDropDb))
        => /\ pc' = "done"
           /\ rest' = rest
           /\ tempDatabases' = tempDatabases
           /\ databases' = tempDatabases
           /\ currentDatabase' = currentDatabase
     /\ pc = "done"
        => /\ pc' = "idle"
           /\ rest' = <<>>
           /\ UNCHANGED <<databases, fileStore, currentDatabase>>]_vars

\* C4, reached case: the line stopped at a USE that asks for a password, with
\* a statement after it left unexecuted
C4_StoppedBeforeLaterStatement ==
  /\ pc = "done"
  /\ Truthy(awaitingPasswordForDb)
  /\ Len(rest) > 1
  /\ Head(rest).op = "USE"

\* the store a line yields when its statements are applied one after the
\* other, each to the store its predecessors left, up to the first statement
\* that ends the line
RECURSIVE ApplyInOrder(_, _, _)
ApplyInOrder(stmts, currentDbName, dbs) ==
  IF stmts = <<>> THEN dbs
  ELSE LET result == Execute(Head(stmts), currentDbName, dbs)
       IN IF \/ result.threw
             \/ result.requiresPasswordInput
             \/ result.requiresPasswordInputForDrop
            THEN dbs
            ELSE ApplyInOrder(Tail(stmts), currentDbName,
                              IF result.hasNewDatabases /\ ~IsErrorOutput(result.output)
                                THEN result.newDatabases ELSE dbs)

\* C5: the statements of a line run in the order written, each on the store
\* left by the ones before it, and the store published when the line ends is
\* the store obtained by applying the line's statements in order to the store
\* the line started from.
C5_LineAppliedInOrder ==
  [][/\ (pc = "idle" /\ pc' = "run")
        => tempDatabases' = databases
     /\ (pc = "run" /\ pc' = "run")
        => ApplyInOrder(rest', clCurrentDatabase, tempDatabases')
             = ApplyInOrder(rest, clCurrentDatabase, tempDatabases)
     /\ (pc = "run" /\ pc' = "done")
        => databases' = ApplyInOrder(rest, clCurrentDatabase, tempDatabases)]_vars

\* C5, reached case: a line of two statements has ended, it started from the
\* empty store, and the store holds what the first statement made followed by
\* what the second added to it
C5_SecondBuiltOnFirst ==
  /\ pc = "done"
  /\ rest = <<>>
  /\ clDatabases = EmptyObj
  /\ Keys(databases) = <<"a", "b">>

\* C6: the database names of the store change only by CREATE DATABASE, which
\* adds the name it is given, and DROP DATABASE, which removes the name it is
\* given; a statement of any other kind leaves the names as they are,
\* whatever the current database is.
C6_NamesChangeOnlyByCreateOrDrop ==
  [][(pc = "run" /\ rest # <<>>)
       => LET s == Head(rest)
              before == KeySet(tempDatabases)
              after == KeySet(tempDatabases')
          IN CASE s.op = "CREATE_DATABASE" -> after \in {before, before \cup {s.name}}
               [] s.op = "DROP_DATABASE" -> after \in {before, before \ {s.name}}
               [] OTHER -> after = before]_vars

\* the statement at the head of the line fails: its handler returns an
\* error line, or throws
StatementFails ==
  LET result == Execute(Head(rest), clCurrentDatabase, tempDatabases)
  IN result.threw \/ IsErrorOutput(result.output)

\* C7: a failing statement changes neither the store nor the current
\* database, and a line goes on to its next statement after every statement
\* but one that asks for a password.
C7_ErrorsAreLocal ==
  [][(/\ pc = "run"
      /\ rest # <<>>
      /\ awaitingPasswordForDb' = awaitingPasswordForDb
      /\ awaitingPasswordForDropDb' = awaitingPasswordForDropDb)
       => /\ pc' = "run"
          /\ rest' = Tail(rest)
          /\ StatementFails
               => /\ tempDatabases' = tempDatabases
                  /\ databases' = databases
                  /\ currentDatabase' = currentDatabase]_vars

-----------------------------------------------------------------------------
\* Properties of the handlers (SpecEngine)

\* the number of rows of a SHOW DATABASES listing that hold the name n
ListedTimes(n, out) ==
  IF Len(out) < 5 THEN 0
  ELSE Cardinality({i \in 4..(Len(out) - 1) :
                      out[i] = "| " \o padEnd(n, Len(out[1]) - 4) \o " |"})

\* C8: after CREATE DATABASE n with a valid identifier n, on any store and
\* whether it succeeded or failed as a duplicate, SHOW DATABASES lists n
\* exactly once.
C8_CreatedDatabaseListedOnce ==
  (eStmt.op = "CREATE_DATABASE" /\ eStmt.pw = Undefined /\ isValidIdentifier(eStmt.name))
    => ListedTimes(eStmt.name, handleShowDatabases(eRes.newDatabases)) = 1

\* C9: CREATE DATABASE n on a store that holds n fails with an error and
\* returns the store as it was, with n's tables, rows and password hash,
\* also when the statement carries another password.
C9_DuplicateCreateFails ==
  (eStmt.op = "CREATE_DATABASE" /\ OwnHas(eIn, eStmt.name))
    => /\ IsErrorOutput(eRes.output)
       /\ eRes.newDatabases = eIn

\* C9, reached case: CREATE DATABASE with a password was called for a
\* database that holds a table and is protected by another password
C9_DuplicateWithOtherPassword ==
  /\ eStmt.op = "CREATE_DATABASE"
  /\ OwnHas(eIn, eStmt.name)
  /\ Get(eIn, eStmt.name).tables # EmptyObj
  /\ IsProtected(eIn, eStmt.name)
  /\ Truthy(eStmt.pw)
  /\ Len(eStmt.pw) >= 4
  /\ Get(eIn, eStmt.name).passwordHash # hashPassword(eStmt.pw)

\* C10: CREATE DATABASE n WITH PASSWORD p with p of length 0 to 3 fails with
\* an error and returns the store unchanged.
C10_ShortPasswordRejected ==
  (eStmt.op = "CREATE_DATABASE" /\ eStmt.pw # Undefined /\ Len(eStmt.pw) < 4)
    => /\ IsErrorOutput(eRes.output)
       /\ eRes.newDatabases = eIn

-----------------------------------------------------------------------------
\* Properties of DROP DATABASE and of the password protocol (Spec)

\* the loop is about to execute DROP DATABASE on a database of the store
IsDropOfExisting ==
  /\ pc = "run"
  /\ rest # <<>>
  /\ Head(rest).op = "DROP_DATABASE"
  /\ OwnHas(tempDatabases, Head(rest).name)

\* C11: DROP DATABASE d on an existing database removes d at once when d is
\* unprotected or is the current database, and then the current database is
\* null if d was current and as before otherwise; when d is protected and
\* not current, the store and the current database stay as they are and the
\* drop waits for d's password.
C11_DropDatabase ==
  [][IsDropOfExisting
       => LET d == Head(rest).name
          IN IF ~IsProtected(tempDatabases, d) \/ d = currentDatabase
               THEN /\ tempDatabases' = Del(tempDatabases, d)
                    /\ databases' = tempDatabases'
                    /\ currentDatabase' = IF d = currentDatabase THEN Null ELSE currentDatabase
                    /\ awaitingPasswordForDropDb' = awaitingPasswordForDropDb
               ELSE /\ tempDatabases' = tempDatabases
                    /\ databases' = databases
                    /\ currentDatabase' = currentDatabase
                    /\ awaitingPasswordForDropDb' = d]_vars

\* a line is submitted while a DROP DATABASE waits for its password
IsDropPasswordLine ==
  /\ pc = "idle"
  /\ pc' = "done"
  /\ Truthy(awaitingPasswordForDropDb)

IsUseOrDropOfProtected ==
  /\ pc = "run"
  /\ rest # <<>>
  /\ Head(rest).op \in {"USE", "DROP_DATABASE"}
  /\ IsProtected(tempDatabases, Head(rest).name)

\* the step ends the line with a password prompt for the database d
PromptsFor(d) ==
  /\ pc' = "done"
  /\ IF Head(rest).op = "USE"
       THEN awaitingPasswordForDb' = d /\ awaitingPasswordForDropDb' = awaitingPasswordForDropDb
       ELSE awaitingPasswordForDropDb' = d /\ awaitingPasswordForDb' = awaitingPasswordForDb

\* C13: USE or DROP DATABASE against a protected database d asks for the
\* password and marks d as pending exactly when d is not already the
\* (authenticated) current database; when it is, no password is asked for.
C13_PromptUnlessCurrent ==
  [][IsUseOrDropOfProtected
       => LET d == Head(rest).name
          IN IF d # currentDatabase
               THEN PromptsFor(d)
               ELSE /\ awaitingPasswordForDb' = awaitingPasswordForDb
                    /\ awaitingPasswordForDropDb' = awaitingPasswordForDropDb]_vars

\* the plaintext passwords the session's statements and lines contain
Plaintexts ==
  {st.pw : st \in {x \in SessionStmts : Truthy(x.pw)}}
    \cup {LineText(<<st>>) : st \in SessionStmts}

\* every credential of the store dbs is absent or the hash of a plaintext,
\* and is none of the plaintexts
CredentialsAreHashes(dbs) ==
  \A i \in 1..Len(dbs) :
    LET h == dbs[i].v.passwordHash
    IN Truthy(h) => /\ \E p \in Plaintexts : Truthy(p) /\ h = hashPassword(p)
                    /\ h \notin Plaintexts

\* a statement of the loop changes credentials only by CREATE DATABASE: a
\* database it keeps has the credential it had, a database it adds has the
\* hash of the statement's password if it is CREATE DATABASE with a
\* password, and no credential otherwise
CredentialSetOnlyByCreate ==
  (pc = "run" /\ rest # <<>>)
    => \A n \in KeySet(tempDatabases') :
         LET h == Get(tempDatabases', n).passwordHash
             st == Head(rest)
         IN IF OwnHas(tempDatabases, n)
              THEN h = Get(tempDatabases, n).passwordHash
            ELSE IF st.op = "CREATE_DATABASE" /\ st.name = n /\ Truthy(st.pw)
              THEN h = hashPassword(st.pw) /\ h # st.pw
            ELSE h = Undefined

\* a database of the session's store keeps its credential in every step
CredentialKept ==
  \A n \in KeySet(databases) \cap KeySet(databases') :
    Get(databases', n).passwordHash = Get(databases, n).passwordHash

\* a password line is judged by comparing the hash of the line with the
\* stored hash
PasswordJudgedByHash ==
  (pc = "idle" /\ pc' = "done" /\ (Truthy(awaitingPasswordForDb) \/ Truthy(awaitingPasswordForDropDb)))
    => LET isDrop == Truthy(awaitingPasswordForDropDb)
           d == IF isDrop THEN awaitingPasswordForDropDb ELSE awaitingPasswordForDb
           matches == /\ IsProtected(databases, d)
                      /\ hashPassword(LineText(rest')) = Get(databases, d).passwordHash
       IN IF isDrop
            THEN OwnHas(databases', d) <=> ~matches
            ELSE currentDatabase' = IF matches THEN d ELSE currentDatabase

\* C14: the credential in a database record is always the one-way hash of
\* the plaintext given at CREATE DATABASE and never the plaintext; every
\* password check compares the hash of the entered text with the stored
\* hash; nothing but CREATE DATABASE sets or changes a credential.
C14_CredentialIsHash ==
  /\ [](CredentialsAreHashes(databases) /\ CredentialsAreHashes(tempDatabases)
          /\ CredentialsAreHashes(fileStore))
  /\ [][CredentialSetOnlyByCreate /\ CredentialKept /\ PasswordJudgedByHash]_vars

\* C14, reached case: a protected database is in the store and in the file,
\* and its password has just been checked and accepted
C14_ProtectedStoredAndChecked ==
  /\ pc = "done"
  /\ Truthy(dbToAuth)
  /\ IsProtected(databases, dbToAuth)
  /\ IsProtected(fileStore, dbToAuth)
  /\ currentDatabase = dbToAuth
  /\ clCurrentDatabase # dbToAuth

-----------------------------------------------------------------------------
\* Properties of the row handlers (SpecTable)

\* the store the caller holds after the call
StoreAfter == IF eRes.hasNewDatabases THEN eRes.newDatabases ELSE eIn

\* the tables of the current database before and after the call
TablesBefore == Get(eIn, eCur).tables
TablesAfter == Get(StoreAfter, eCur).tables

\* everything but the table named n is as it was
OthersUnchanged(n) ==
  /\ Keys(StoreAfter) = Keys(eIn)
  /\ \A d \in KeySet(eIn) : d # eCur => Get(StoreAfter, d) = Get(eIn, d)
  /\ Get(StoreAfter, eCur).passwordHash = Get(eIn, eCur).passwordHash
  /\ Keys(TablesAfter) = Keys(TablesBefore)
  /\ \A u \in KeySet(TablesBefore) : u # n => Get(TablesAfter, u) = Get(TablesBefore, u)

LowerNames(parsedColumns) ==
  {toLowerCase(parsedColumns[i].name) : i \in 1..Len(parsedColumns)}

\* the text is no number of the column's type (nothing is asked of other types)
FailsCoercion(type, text) ==
  \/ IsIntType(type) /\ DigitPrefix(Unsigned(text)) = ""
  \/ /\ ~IsIntType(type) /\ IsFloatType(type)
     /\ DigitPrefix(Unsigned(text)) = "" /\ ~StartsWith(Unsigned(text), "Infinity")

\* the INSERT of the call names a table of the database, lists only columns
\* of it, gives as many values as it has target columns, and every value
\* that is not NULL can be coerced to its column's type
InsertIsAcceptable ==
  /\ OwnHas(TablesBefore, eStmt.name)
  /\ LET table == Get(TablesBefore, eStmt.name)
         targets == IF eStmt.columns = <<>>
                      THEN [i \in 1..Len(table.parsedColumns) |-> table.parsedColumns[i].name]
                      ELSE eStmt.columns
         typeOf(c) == (CHOOSE col \in {table.parsedColumns[i] : i \in 1..Len(table.parsedColumns)} :
                         toLowerCase(col.name) = toLowerCase(c)).type
     IN /\ \A i \in 1..Len(targets) : toLowerCase(targets[i]) \in LowerNames(table.parsedColumns)
        /\ Len(eStmt.values) = Len(targets)
        /\ \A i \in 1..Len(targets) :
             LET v == eStmt.values[i]
             IN (~v.quoted /\ toUpperCase(v.text) = "NULL") \/ ~FailsCoercion(typeOf(targets[i]), v.text)

\* C15: INSERT is all-or-nothing: with an unknown table, a listed column
\* that is not found, a value count other than the target column count, or
\* a value that fails coercion, the store stays as it was; otherwise exactly
\* one row is appended behind the existing rows of the table, which are
\* unchanged and in their order, and nothing else changes.
C15_InsertAllOrNothing ==
  eStmt.op = "INSERT"
    => IF InsertIsAcceptable
         THEN LET before == Get(TablesBefore, eStmt.name)
                  after == Get(TablesAfter, eStmt.name)
              IN /\ Len(after.data) = Len(before.data) + 1
                 /\ SubSeq(after.data, 1, Len(before.data)) = before.data
                 /\ after.parsedColumns = before.parsedColumns
                 /\ after.columnsDefinition = before.columnsDefinition
                 /\ OthersUnchanged(eStmt.name)
         ELSE StoreAfter = eIn

\* C15, reached case: an INSERT was accepted into a table that had rows
C15_RowAppended ==
  /\ eStmt.op = "INSERT"
  /\ eRes.hasNewDatabases
  /\ Get(TablesBefore, eStmt.name).data # <<>>
  /\ eRes.newDatabases # eIn

\* the lines DESCRIBE prints for the table n of the store dbs
DescribeLines(dbs, n) == handleDescribeTable(n, eCur, dbs).output.lines

\* C16: a successful ALTER TABLE t ADD COLUMN c appends c as the last column
\* of t, gives every existing row the value null for c and leaves every
\* other value of every row unchanged, so that DESCRIBE lists one more
\* field; when t has a column equal to c ignoring case the statement fails
\* and the store is unchanged.
C16_AddColumn ==
  (eStmt.op = "ALTER" /\ OwnHas(TablesBefore, eStmt.name))
    => LET before == Get(TablesBefore, eStmt.name)
           after == Get(TablesAfter, eStmt.name)
       IN IF toLowerCase(eStmt.column) \in LowerNames(before.parsedColumns)
            THEN ~eRes.hasNewDatabases /\ IsErrorOutput(eRes.output)
          ELSE eRes.hasNewDatabases
                 => /\ Len(after.parsedColumns) = Len(before.parsedColumns) + 1
                    /\ SubSeq(after.parsedColumns, 1, Len(before.parsedColumns)) = before.parsedColumns
                    /\ after.parsedColumns[Len(after.parsedColumns)].name = eStmt.column
                    /\ Len(after.data) = Len(before.data)
                    /\ \A r \in 1..Len(before.data) :
                         /\ Cell(after.data[r], eStmt.column) = VNull
                         /\ \A k \in KeySet(before.data[r]) :
                              Cell(after.data[r], k) = Cell(before.data[r], k)
                    /\ Len(DescribeLines(StoreAfter, eStmt.name))
                         = Len(DescribeLines(eIn, eStmt.name)) + 1

\* C17: a successful RENAME TABLE old TO new leaves the columns and rows of
\* the table identical under the new name, removes the old name and leaves
\* every other table and database unchanged; it fails, with the store
\* unchanged, when old does not exist, new exists already or new is no valid
\* identifier.
C17_RenameTable ==
  eStmt.op = "RENAME"
    => LET old == eStmt.name
           new == eStmt.newName
       IN IF \/ ~OwnHas(TablesBefore, old)
             \/ OwnHas(TablesBefore, new)
             \/ ~isValidIdentifier(new)
            THEN ~eRes.hasNewDatabases /\ IsErrorOutput(eRes.output)
          ELSE eRes.hasNewDatabases
                 => /\ OwnHas(TablesAfter, new)
                    /\ Get(TablesAfter, new) = Get(TablesBefore, old)
                    /\ ~OwnHas(TablesAfter, old)
                    /\ KeySet(TablesAfter) = (KeySet(TablesBefore) \ {old}) \cup {new}
                    /\ \A u \in KeySet(TablesBefore) \ {old} :
                         Get(TablesAfter, u) = Get(TablesBefore, u)
                    /\ Keys(StoreAfter) = Keys(eIn)
                    /\ \A d \in KeySet(eIn) \ {eCur} : Get(StoreAfter, d) = Get(eIn, d)

\* the call is a DELETE or UPDATE on a table of the database whose WHERE
\* clause, if any, compiles
IsOnTableWithFilter(op) ==
  /\ eStmt.op = op
  /\ TableKind(TablesBefore, eStmt.name) = "table"
  /\ parseWhereClause(eStmt.where, Get(TablesBefore, eStmt.name)).error = ""

\* row satisfies the predicate of the statement of the call
Satisfies(row) ==
  filterFn(parseWhereClause(eStmt.where, Get(TablesBefore, eStmt.name)), row)

\* C18: DELETE FROM t [WHERE p] removes exactly the rows of t that satisfy p
\* (all rows without WHERE), keeps the other rows unchanged and in their
\* order and reports the number of rows removed (0 on an empty table); a
\* SELECT with the same predicate right afterwards gives "Empty set".
C18_DeleteRemovesMatching ==
  IsOnTableWithFilter("DELETE")
    => LET before == Get(TablesBefore, eStmt.name).data
           after == Get(TablesAfter, eStmt.name).data
           removed == Len(SelectSeq(before, Satisfies))
       IN /\ eRes.hasNewDatabases
          /\ after = SelectSeq(before, LAMBDA row : ~Satisfies(row))
          /\ (~eStmt.where.present => after = <<>>)
          /\ eRes.output = Str(ToString(removed) \o " row(s) deleted from '" \o eStmt.name \o "'.")
          /\ (before = <<>> => removed = 0)
          /\ handleSelectData(
               Select(<<"*">>, eStmt.name, eStmt.where, Undefined, Undefined, Undefined),
               eCur, StoreAfter).output = Str("Empty set")

\* C18, reached case: a DELETE with WHERE removed some rows of the table and
\* kept others
C18_SomeRowsDeleted ==
  /\ eStmt.op = "DELETE"
  /\ eStmt.where.present
  /\ eRes.hasNewDatabases
  /\ Get(TablesAfter, eStmt.name).data # <<>>
  /\ Len(Get(TablesAfter, eStmt.name).data) < Len(Get(TablesBefore, eStmt.name).data)

\* the column of the table the SET assignment i names, ignoring case
SetColumn(table, i) ==
  CHOOSE col \in {table.parsedColumns[k] : k \in 1..Len(table.parsedColumns)} :
    toLowerCase(col.name) = toLowerCase(eStmt.set[i].column)

\* some SET assignment names no column of the table or gives a text that is
\* neither NULL nor a number of the column's type
SetIsInvalid(table) ==
  \E i \in 1..Len(eStmt.set) :
    \/ toLowerCase(eStmt.set[i].column) \notin LowerNames(table.parsedColumns)
    \/ /\ toUpperCase(eStmt.set[i].value.text) # "NULL"
       /\ FailsCoercion(SetColumn(table, i).type, eStmt.set[i].value.text)

\* C19: UPDATE t SET ... [WHERE p] validates every assignment before it
\* changes anything: with an unknown SET column or a value that fails
\* coercion no row is changed; otherwise every row satisfying p (every row
\* without WHERE) receives all the assignments, the other rows are
\* unchanged, order and number of rows are kept, and the reported count is
\* the number of rows satisfying p.
C19_UpdateValidatesFirst ==
  (eStmt.op = "UPDATE" /\ TableKind(TablesBefore, eStmt.name) = "table")
    => LET table == Get(TablesBefore, eStmt.name)
           before == table.data
           after == Get(TablesAfter, eStmt.name).data
           assigned == {SetColumn(table, i).name : i \in 1..Len(eStmt.set)}
       IN IF SetIsInvalid(table) THEN StoreAfter = eIn
          ELSE IsOnTableWithFilter("UPDATE")
                 => /\ eRes.hasNewDatabases
                    /\ Len(after) = Len(before)
                    /\ \A r \in 1..Len(before) :
                         IF Satisfies(before[r])
                           THEN /\ \A i \in 1..Len(eStmt.set) :
                                     Cell(after[r], SetColumn(table, i).name)
                                       = UpdateCoerced(SetColumn(table, i).type, eStmt.set[i].value.text)
                                /\ \A k \in KeySet(before[r]) \ assigned :
                                     Cell(after[r], k) = Cell(before[r], k)
                                /\ KeySet(after[r]) = KeySet(before[r]) \cup assigned
                           ELSE after[r] = before[r]
                    /\ eRes.output = Str(ToString(Len(SelectSeq(before, Satisfies)))
                                         \o " row(s) updated in '" \o eStmt.name \o "'.")

\* C19, reached case: an UPDATE with two assignments changed a row that
\* satisfies its WHERE and left another row alone
C19_SomeRowsUpdated ==
  /\ eStmt.op = "UPDATE"
  /\ Len(eStmt.set) = 2
  /\ eRes.hasNewDatabases
  /\ LET before == Get(TablesBefore, eStmt.name).data
         after == Get(TablesAfter, eStmt.name).data
     IN /\ \E r \in 1..Len(before) : Satisfies(before[r]) /\ after[r] # before[r]
        /\ \E r \in 1..Len(before) : ~Satisfies(before[r])

\* The order ORDER BY asks for on the cells of a column of the given type:
\* null first, then a missing cell, then the values, numbers by their
\* value and texts ignoring case.
KeyClass(v) == CASE v.t = "null" -> 0 [] v.t = "undef" -> 1 [] OTHER -> 2
KeyLess(type, a, b) ==
  \/ KeyClass(a) < KeyClass(b)
  \/ /\ KeyClass(a) = 2 /\ KeyClass(b) = 2
     /\ IF IsIntType(type) \/ IsFloatType(type)
          THEN NumLess(a, b)
          ELSE StrLess(toLowerCase(String(a)), toLowerCase(String(b)))

\* rows sorted on the column col in the direction dir, rows with equal keys
\* in their order in rows
SortedBy(rows, col, dir) ==
  LET key(i) == Cell(rows[i], col.name)
      comesFirst(i, j) ==
        \/ IF dir = "DESC" THEN KeyLess(col.type, key(j), key(i))
                           ELSE KeyLess(col.type, key(i), key(j))
        \/ ~KeyLess(col.type, key(i), key(j)) /\ ~KeyLess(col.type, key(j), key(i)) /\ i < j
      place(i) == Cardinality({j \in 1..Len(rows) : comesFirst(j, i)}) + 1
  IN [k \in 1..Len(rows) |-> rows[CHOOSE i \in 1..Len(rows) : place(i) = k]]

\* the call is a SELECT with ORDER BY on a column of a table of the database
\* whose WHERE clause, if any, compiles and whose LIMIT, if any, is a number
IsOrderedSelect ==
  /\ IsOnTableWithFilter("SELECT")
  /\ Truthy(eStmt.orderBy)
  /\ Truthy(eStmt.limit) => IsDigits(eStmt.limit)
  /\ toLowerCase(eStmt.orderBy) \in LowerNames(Get(TablesBefore, eStmt.name).parsedColumns)

\* C20: SELECT filters (WHERE), then sorts (ORDER BY), then truncates
\* (LIMIT n): it shows the first n rows of the sorted sequence of the
\* matching rows, so that ORDER BY id DESC LIMIT 1 shows the row with the
\* greatest id among the matching rows.
C20_FilterSortLimit ==
  IsOrderedSelect
    => LET table == Get(TablesBefore, eStmt.name)
           col == CHOOSE c \in {table.parsedColumns[k] : k \in 1..Len(table.parsedColumns)} :
                    toLowerCase(c.name) = toLowerCase(eStmt.orderBy)
           dir == IF Truthy(eStmt.direction) /\ toUpperCase(eStmt.direction) = "DESC"
                    THEN "DESC" ELSE "ASC"
           matching == SelectSeq(table.data, Satisfies)
           sorted == SortedBy(matching, col, dir)
           n == IF Truthy(eStmt.limit) THEN DigitsValue(eStmt.limit, 0) ELSE Len(sorted)
           shown == SubSeq(sorted, 1, IF n < Len(sorted) THEN n ELSE Len(sorted))
           headers == IF eStmt.columns = <<"*">>
                        THEN [k \in 1..Len(table.parsedColumns) |-> table.parsedColumns[k].name]
                        ELSE eStmt.columns
           cells == [r \in 1..Len(shown) |->
                       [k \in 1..Len(headers) |->
                          IF Cell(shown[r], headers[k]) = VNull THEN "NULL"
                          ELSE String(Cell(shown[r], headers[k]))]]
       IN eRes.output = IF shown = <<>> THEN Str("Empty set")
                        ELSE Arr(formatTableOutput(headers, cells))

\* the call is a SELECT with a LIMIT clause on a table of the database whose
\* WHERE clause, if any, compiles and whose ORDER BY, if any, names a column
IsLimitedSelect ==
  /\ IsOnTableWithFilter("SELECT")
  /\ Truthy(eStmt.limit)
  /\ Truthy(eStmt.orderBy)
       => toLowerCase(eStmt.orderBy) \in LowerNames(Get(TablesBefore, eStmt.name).parsedColumns)

\* the result of the SELECT of the call written without its LIMIT clause
WithoutLimit == handleSelectData([eStmt EXCEPT !.limit = Undefined], eCur, eIn)

\* C21: LIMIT 0 shows no row; a LIMIT that is negative or no number is
\* ignored: the SELECT succeeds with the result it has without the LIMIT
\* clause, with and without a WHERE clause.
C21_LimitPolicy ==
  IsLimitedSelect
    => IF ~IsDigits(eStmt.limit)
         THEN ~IsErrorOutput(eRes.output) /\ eRes = WithoutLimit
         ELSE DigitsValue(eStmt.limit, 0) = 0 => eRes.output = Str("Empty set")

\* The rows of an ordered SELECT, read back from its output: the rows that
\* satisfy the WHERE of the call, the column and direction of its ORDER BY,
\* the texts shown for a sequence of rows, and the arrangements (sequences
\* of distinct positions in the matching rows) that give the output.
MatchingRows == SelectSeq(Get(TablesBefore, eStmt.name).data, Satisfies)
OrderColumn ==
  LET parsedColumns == Get(TablesBefore, eStmt.name).parsedColumns
  IN CHOOSE c \in {parsedColumns[k] : k \in 1..Len(parsedColumns)} :
       toLowerCase(c.name) = toLowerCase(eStmt.orderBy)
OrderDirection ==
  IF Truthy(eStmt.direction) /\ toUpperCase(eStmt.direction) = "DESC" THEN "DESC" ELSE "ASC"
ShownHeaders ==
  LET parsedColumns == Get(TablesBefore, eStmt.name).parsedColumns
  IN IF eStmt.columns = <<"*">>
       THEN [k \in 1..Len(parsedColumns) |-> parsedColumns[k].name]
       ELSE eStmt.columns
ShownCells(rows) ==
  [r \in 1..Len(rows) |->
     [k \in 1..Len(ShownHeaders) |->
        IF Cell(rows[r], ShownHeaders[k]) = VNull THEN "NULL"
        ELSE String(Cell(rows[r], ShownHeaders[k]))]]
Arrangements(n) ==
  {q \in SeqsUpTo(1..n, n) : q # <<>> /\ \A i, j \in 1..Len(q) : q[i] = q[j] => i = j}
ShownArrangements ==
  {q \in Arrangements(Len(MatchingRows)) :
     eRes.output = Arr(formatTableOutput(ShownHeaders,
                                         ShownCells([k \in 1..Len(q) |-> MatchingRows[q[k]]])))}
\* the cell of the sort column in the k-th row of the arrangement q
OrderCell(q, k) == Cell(MatchingRows[q[k]], OrderColumn.name)

\* C22: in the rows an ORDER BY col shows, every row whose col is null
\* stands before every row whose col is not null when the direction is
\* ascending or omitted, and behind every such row when it is DESC.
C22_NullsFirst ==
  IsOrderedSelect
    => /\ eRes.output = Str("Empty set") \/ ShownArrangements # {}
       /\ \A q \in ShownArrangements : \A i, j \in 1..Len(q) :
            (OrderCell(q, i) = VNull /\ OrderCell(q, j) # VNull)
              => IF OrderDirection = "DESC" THEN j < i ELSE i < j

\* C22, reached case: an ascending ORDER BY showed a row with null in the
\* sort column before a row that stands before it in the table
C22_NullRowMovedUp ==
  /\ IsOrderedSelect
  /\ OrderDirection = "ASC"
  /\ \E q \in ShownArrangements : \E i, j \in 1..Len(q) :
       i < j /\ q[j] < q[i] /\ OrderCell(q, i) = VNull /\ OrderCell(q, j) # VNull

\* the sort keys of two cells of the sort column are equal: both null,
\* equal numbers, or texts equal ignoring case
EqualKeys(a, b) ==
  \/ a = VNull /\ b = VNull
  \/ a.t \in {"num", "inf", "big"} /\ a = b
  \/ a.t = "str" /\ b.t = "str" /\ toLowerCase(a.s) = toLowerCase(b.s)

\* in the arrangement q every matching row that stands in the table before
\* a shown row with an equal key is shown before it
KeepsTableOrder(q) ==
  \A i \in 1..Len(q) : \A m \in 1..(q[i] - 1) :
    EqualKeys(Cell(MatchingRows[m], OrderColumn.name), OrderCell(q, i))
      => \E j \in 1..(i - 1) : q[j] = m

\* C23: ORDER BY is stable in both directions: rows whose sort keys are
\* equal are shown in their order in the table.
C23_StableSort ==
  IsOrderedSelect
    => \/ eRes.output = Str("Empty set")
       \/ \E q \in ShownArrangements : KeepsTableOrder(q)

\* C23, reached case: a descending ORDER BY showed two different rows with
\* equal keys
C23_EqualKeysDescending ==
  /\ IsOrderedSelect
  /\ OrderDirection = "DESC"
  /\ \E q \in ShownArrangements : \E i, j \in 1..Len(q) :
       /\ i < j
       /\ EqualKeys(OrderCell(q, i), OrderCell(q, j))
       /\ MatchingRows[q[i]] # MatchingRows[q[j]]

-----------------------------------------------------------------------------
\* The caller's store across a call

\* a handler was called in this step
HandlerCalled == eStmt.op = "NONE" /\ eStmt'.op # "NONE"

-----------------------------------------------------------------------------
\* Saving and loading

\* the store read back from the file after saving dbs
Reloaded(dbs) == loadDatabasesAction(saveDatabasesAction(dbs))

\* the tables of the database a
TableNamesOf(dbs) == KeySet(Get(dbs, "a").tables)

\* C25: the store loaded after saving the store the statements produced is
\* equal to the store saved, and DESCRIBE lists every table the same before
\* and after.
C25_SaveLoadRoundTrip ==
  eStmt.op = "NONE"
    => /\ Reloaded(eIn) = eIn
       /\ \A t \in TableNamesOf(eIn) :
            handleDescribeTable(t, "a", Reloaded(eIn)).output = handleDescribeTable(t, "a", eIn).output

-----------------------------------------------------------------------------
\* Properties of the host (SpecHost)

\* the browser b takes this step
StepOf(b) == sessions'[b] # sessions[b]

\* what loadDatabasesAction returns to the browser b (the action has no
\* argument and reads the one file)
LoadedBy(b) == loadDatabasesAction(fileStore)

\* C26: the browsers are isolated: a step of one browser changes neither
\* the store another browser shows nor the store another browser loads.
C26_IsolatedSessions ==
  [][\A b \in Browsers : StepOf(b) =>
       \A o \in Browsers \ {b} :
         /\ sessions'[o].databases = sessions[o].databases
         /\ LoadedBy(o)' = LoadedBy(o)]_vars

-----------------------------------------------------------------------------
\* Rows and columns

\* the names of the columns of a table
ColumnNames(table) == {table.parsedColumns[i].name : i \in 1..Len(table.parsedColumns)}

\* every key of every row of every table of the store is a column of the table
RowKeysAreColumns(dbs) ==
  \A i \in 1..Len(dbs) : \A j \in 1..Len(dbs[i].v.tables) :
    LET table == dbs[i].v.tables[j].v
    IN \A r \in 1..Len(table.data) : KeySet(table.data[r]) \subseteq ColumnNames(table)

\* C27: in every store a handler is given or returns, the keys of every row
\* are names of columns of its table.
C27_RowKeysAreColumns ==
  /\ RowKeysAreColumns(eIn)
  /\ eRes.hasNewDatabases => RowKeysAreColumns(eRes.newDatabases)

\* C27, reached case: ALTER added a column to a table that has rows written
\* by INSERT
C27_RowsWritten ==
  /\ eStmt.op = "ALTER"
  /\ eRes.hasNewDatabases
  /\ eRes.newDatabases # eIn
  /\ RowCount(eIn) > 0

-----------------------------------------------------------------------------
\* The current database within a line

\* the statement loop is about to execute a statement
IsLoopPass == pc = "run" /\ rest # <<>>

\* C28: within one line a statement runs with the current database the
\* statements before it on the line have set: the database of a successful
\* USE, none after a DROP DATABASE of the current database.
C28_CurrentDatabaseWithinLine ==
  [][IsLoopPass =>
       \E it \in {Iteration(Head(rest), currentDatabase, tempDatabases)} :
         /\ tempDatabases' = it.tempDatabases
         /\ threw' = it.threw
         /\ currentDatabase' = IF it.setsCurrent THEN it.current ELSE currentDatabase]_vars

-----------------------------------------------------------------------------
\* Saves of several browsers

\* the save of the statement c of the browser b returns in this step
SavedBy(b, c) ==
  /\ StepOf(b)
  /\ \E i \in 1..Len(sessions[b].running) :
       /\ sessions[b].running[i].awaiting = "save"
       /\ sessions[b].running[i].commandStr = c
       /\ fileStore' = saveDatabasesAction(sessions[b].running[i].updatedDatabases)

\* C29: the saves of the browsers are serialized on the persisted store: the
\* save that follows a CREATE DATABASE or DROP DATABASE of one browser
\* changes the persisted store in the database the statement names only, so
\* the databases other browsers have created or dropped in between stay as
\* those left them.
C29_NoLostUpdate ==
  [][\A b \in Browsers, c \in HostStmts : SavedBy(b, c) =>
       \A n \in {"a", "b"} \ {c.name} :
         /\ OwnHas(fileStore', n) <=> OwnHas(fileStore, n)
         /\ OwnHas(fileStore, n) => Get(fileStore', n) = Get(fileStore, n)]_vars

-----------------------------------------------------------------------------
\* One line at a time

\* C30: at most one input line is processed at a time in a browser: at most
\* one processCommand invocation is in progress, and while one is (it waits
\* for a save or for the assistant) handleSubmit starts no other.
C30_OneLineAtATime ==
  \A b \in Browsers :
    /\ Len(sessions[b].running) <= 1
    /\ sessions[b].running # <<>> => ~handleSubmit(sessions[b])

\* C30, reached case: an invocation waits for its save with a statement of
\* its line still to run
C30_SuspendedMidLine ==
  \E b \in Browsers :
    /\ Len(sessions[b].running) = 1
    /\ sessions[b].running[1].awaiting = "save"
    /\ sessions[b].running[1].rest # <<>>

-----------------------------------------------------------------------------
\* The current database between lines

\* C31: whenever no input line is being processed, the current database is
\* null or the name of a database of the store.
C31_CurrentDatabaseInStore ==
  pc = "idle" => currentDatabase = Null \/ OwnHas(databases, currentDatabase)

-----------------------------------------------------------------------------
\* Unknown columns in SELECT

\* the call is a SELECT on a table of the database, with a column list of
\* which no name is a column of the table
IsSelectOfUnknownColumns ==
  /\ IsOnTableWithFilter("SELECT")
  /\ ~Truthy(eStmt.orderBy) /\ ~Truthy(eStmt.limit)
  /\ eStmt.columns \notin {<<>>, <<"*">>}
  /\ \A i \in 1..Len(eStmt.columns) :
       toLowerCase(eStmt.columns[i]) \notin LowerNames(Get(TablesBefore, eStmt.name).parsedColumns)

\* C32: a SELECT whose column list holds no column of the table fails with
\* the error that names the requested columns, however many rows match.
C32_UnknownColumnsError ==
  IsSelectOfUnknownColumns
    => /\ eRes.output.str
       /\ StartsWith(eRes.output.lines[1],
                     "Error: None of the requested columns (" \o Join(eStmt.columns, ", ") \o ")")

-----------------------------------------------------------------------------
\* The WHERE predicate

\* the call is a SELECT, UPDATE or DELETE with a WHERE clause that compiles,
\* on a table of the database
IsFilteredCall ==
  /\ eStmt.op \in {"SELECT", "UPDATE", "DELETE"}
  /\ IsOnTableWithFilter(eStmt.op)
  /\ eStmt.where.present

\* the column the WHERE clause of the call names
WhereColumn ==
  LET parsedColumns == Get(TablesBefore, eStmt.name).parsedColumns
  IN parsedColumns[FindColumn(parsedColumns, eStmt.where.column)]

\* row is to match the WHERE clause of the call: null for the literal NULL,
\* else equal numbers on a numeric column, equal texts ignoring case on a
\* textual one
IsToMatch(row) ==
  LET v == Cell(row, WhereColumn.name)
      literal == eStmt.where.value
  IN IF ~literal.quoted /\ toUpperCase(literal.text) = "NULL" THEN v = VNull
     ELSE IF IsIntType(WhereColumn.type) THEN IsNumber(v) /\ v = parseInt(literal.text)
     ELSE IF IsFloatType(WhereColumn.type) THEN IsNumber(v) /\ v = parseFloat(literal.text)
     ELSE v.t = "str" /\ toLowerCase(v.s) = toLowerCase(literal.text)

\* C33: the WHERE predicate of SELECT, UPDATE and DELETE matches a row on a
\* textual column when the texts are equal ignoring case, on a numeric
\* column when the numbers are equal, and for the literal NULL exactly when
\* the row's value is null.
C33_WherePredicate ==
  IsFilteredCall
    => \A r \in 1..Len(Get(TablesBefore, eStmt.name).data) :
         LET row == Get(TablesBefore, eStmt.name).data[r]
         IN Satisfies(row) <=> IsToMatch(row)

-----------------------------------------------------------------------------
\* Coercion of literals

\* the value parseWhereClause compares with, for the literal text on a
\* column of the given type (NaN: the clause is refused)
WhereCoerced(type, text) ==
  parseWhereClause(Where("c", Lit(text)),
                   TableSchema("", <<[name |-> "c", type |-> type]>>, <<>>)).filterValue

\* the literals of the call: the VALUES of an INSERT, the values of the SET
\* assignments of an UPDATE, the literal of a WHERE clause
LiteralsOfCall ==
  {eStmt.values[i] : i \in 1..Len(eStmt.values)}
    \cup {eStmt.set[i].value : i \in 1..Len(eStmt.set)}
    \cup (IF eStmt.where.present /\ eStmt.where.matched THEN {eStmt.where.value} ELSE {})

\* C34: a literal gives the same value for a column of a given type in
\* INSERT VALUES, in UPDATE SET and in WHERE: null for the unquoted NULL in
\* any case, the text for the quoted 'NULL', a number for numeric columns.
C34_OneCoercion ==
  eStmt.op \in {"INSERT", "UPDATE", "SELECT", "DELETE"} =>
    \A literal \in LiteralsOfCall : \A type \in {"INT", "FLOAT", "TEXT"} :
      /\ InsertCoerced(type, InsertValue(literal)) = UpdateCoerced(type, literal.text)
      /\ ~IsNaN(UpdateCoerced(type, literal.text))
           => WhereCoerced(type, literal.text) = UpdateCoerced(type, literal.text)

-----------------------------------------------------------------------------
\* Columns an INSERT leaves out

\* the rows of the table of the call that lack a column of the table
RowsWithOmission ==
  LET table == Get(TablesBefore, eStmt.name)
  IN {r \in 1..Len(table.data) : KeySet(table.data[r]) # ColumnNames(table)}

\* the call is SELECT * FROM t WHERE score = NULL on a table with a row
\* that an INSERT wrote without its score
IsSelectOfOmitted ==
  /\ eStmt.op = "SELECT"
  /\ TableKind(TablesBefore, eStmt.name) = "table"
  /\ eStmt.where = Where("score", Lit("NULL"))
  /\ ~Truthy(eStmt.orderBy) /\ ~Truthy(eStmt.limit)
  /\ \E r \in RowsWithOmission :
       ~OwnHas(Get(TablesBefore, eStmt.name).data[r], "score")

\* C35: a row an INSERT wrote without a column has null in that column: it
\* is selected by WHERE col = NULL (and shown with NULL in the column).
C35_OmittedColumnIsNull ==
  IsSelectOfOmitted
    => \A r \in RowsWithOmission :
         ~OwnHas(Get(TablesBefore, eStmt.name).data[r], "score")
           => Satisfies(Get(TablesBefore, eStmt.name).data[r])

-----------------------------------------------------------------------------
\* Column names

\* the column names of every table of the store are pairwise distinct
\* ignoring case
ColumnsAreDistinct(dbs) ==
  \A i \in 1..Len(dbs) : \A j \in 1..Len(dbs[i].v.tables) :
    LET parsedColumns == dbs[i].v.tables[j].v.parsedColumns
    IN \A k, l \in 1..Len(parsedColumns) :
         toLowerCase(parsedColumns[k].name) = toLowerCase(parsedColumns[l].name) => k = l

\* C36: in every store a handler is given or returns, the column names of
\* each table are pairwise distinct ignoring case.
C36_DistinctColumnNames ==
  /\ ColumnsAreDistinct(eIn)
  /\ eRes.hasNewDatabases => ColumnsAreDistinct(eRes.newDatabases)

\* processCommand, `addHistoryEntry('input', trimmedFullInputLine, ...)`: the
\* entry appended to history for the line ln before any branch is taken; the
\* history effect writes the whole history to localStorage after the render
InputEntry(ln) == [type |-> "input", content |-> LineText(ln)]

\* processCommand, `const password = trimmedFullInputLine` of the two
\* password branches, for the line in hand
password == LineText(rest)

\* the line in hand was taken by one of the two password branches
PasswordBranchTaken == pc = "done" /\ (Truthy(dbToAuth) \/ Truthy(dbToDrop))

\* C37: the plaintext of a password typed at a password prompt (of USE or of
\* DROP DATABASE) is not written to the history, and so not to the history
\* kept in localStorage: the 'input' entry of such a line does not hold it.
C37_PasswordNotInHistory ==
  PasswordBranchTaken => InputEntry(rest).content # password

\* C37, the worst case: the 'input' entry of the line holds the very text
\* whose hash is stored for the database asked about
C37_RightPasswordInHistory ==
  /\ PasswordBranchTaken
  /\ LET d == IF Truthy(dbToDrop) THEN dbToDrop ELSE dbToAuth
     IN /\ IsProtected(clDatabases, d)
        /\ verifyPassword(InputEntry(rest).content, Get(clDatabases, d).passwordHash)

-----------------------------------------------------------------------------
\* Saves

\* what the loop pass of processCommand does with the result of the call in
\* hand (SpecEngine, SpecTable): tempDatabases and needsSave
PassOfCall == SwitchCase(eStmt, eIn, eRes)

\* C38: after a save that completes, the persisted store equals the
\* in-memory store as of the statement that triggered it: the file written
\* by saveDatabasesAction(tempDatabases) holds tempDatabases.
C38_PersistedIsInMemory ==
  (eStmt.op # "NONE" /\ PassOfCall.needsSave)
    => saveDatabasesAction(PassOfCall.tempDatabases) = PassOfCall.tempDatabases

-----------------------------------------------------------------------------
\* Statements that only read

ReadOnly == {"SHOW_DATABASES", "SHOW_TABLES", "DESCRIBE", "SELECT"}

\* the call in hand failed: an 'Error:' output (a string, or the first
\* line of a list) or a TypeError
CallFailed ==
  \/ eRes.threw
  \/ Len(eRes.output.lines) > 0 /\ StartsWith(eRes.output.lines[1], "Error:")

C39_FailedChange ==
  /\ eStmt.op \in {"INSERT", "UPDATE", "DELETE", "ALTER", "RENAME"}
  /\ CallFailed
  /\ eRes.hasNewDatabases

-----------------------------------------------------------------------------
\* Termination of a line (SpecHostLive)

\* a line is being processed in the browser b
LineInProgress(b) == sessions[b].running # <<>>

\* no line is being processed in the browser b and its form takes a line
InputUsable(b) ==
  /\ sessions[b].running = <<>>
  /\ ~sessions[b].isSavingData
  /\ ~sessions[b].isLoadingAssistant
  /\ handleSubmit(sessions[b])

\* C40: provided every save and every assistant call eventually returns or
\* fails, every submitted line eventually finishes and the form takes a line
\* again: isSavingData and isLoadingAssistant are eventually false after
\* every line, whether the calls succeeded or failed.
C40_LineFinishes == \A b \in Browsers : LineInProgress(b) ~> InputUsable(b)

\* C40, reached case: a line has finished after a save of it failed (the
\* file is not the store of the only browser that has loaded the page)
C40_FinishedAfterFailedSave ==
  \E b \in Browsers :
    /\ InputUsable(b)
    /\ \A other \in Browsers \ {b} : sessions[other].isLoadingInitialData
    /\ fileStore # sessions[b].databases
====
